---- MODULE Spec2Model ----
(***************************************************************************)
(* Fraud risk scoring engine of Tax-Invasion: FraudDetectionEngine         *)
(* (src/fraud_detection.py) over the benchmark tables of                   *)
(* src/sample_data.py.                                                     *)
(*                                                                         *)
(* Numbers.  The engine computes in Python floats; the model computes the  *)
(* same expressions over exact rationals.  A threshold test such as        *)
(* `actual < expected * 0.2` is written cross-multiplied over integers, a  *)
(* score that is not an integer is a reduced fraction [n, d].  Rates that  *)
(* the source writes as fractions (expected_tax_rate 0.15) are held in     *)
(* percent (15).  Python dicts are TLA+ records (functions on strings), so *)
(* a missing key is a missing field; an optional argument is <<>> for None *)
(* and <<d>> for a dict d.                                                 *)
(***************************************************************************)
EXTENDS Integers, Sequences, FiniteSets, TLC

(* business_data: the profile under analysis; xgboost_model: whether the  *)
(* engine holds a fitted XGBoost model; trained: the fitted models, as the *)
(* outputs they give for the profile; history: the scoring calls this     *)
(* engine has answered; call: the last call and its outcome; nodes, edges: *)
(* the graph of a FraudNetworkAnalyzer                                     *)
VARIABLES business_data, xgboost_model, trained, history, call, nodes, edges

vars == <<business_data, xgboost_model, trained, history, call, nodes, edges>>

----------------------------------------------------------------------------
(* Arithmetic helpers *)

Min(a, b) == IF a <= b THEN a ELSE b

Max(a, b) == IF a >= b THEN a ELSE b

Abs(a) == IF a < 0 THEN -a ELSE a

RECURSIVE GCD(_, _)
GCD(a, b) == IF b = 0 THEN a ELSE GCD(b, a % b)

Lcm(a, b) == (a \div GCD(a, b)) * b

(* the fraction n/d (d > 0), reduced *)
Frac(n, d) == LET g == GCD(Abs(n), d) IN
                IF g = 0 THEN [n |-> 0, d |-> 1] ELSE [n |-> n \div g, d |-> d \div g]

Whole(k) == [n |-> k, d |-> 1]

RAdd(x, y) == LET l == Lcm(x.d, y.d) IN Frac(x.n * (l \div x.d) + y.n * (l \div y.d), l)

(* x * p/q for a fraction x and integers p, q > 0 *)
RScale(x, p, q) == LET g1 == GCD(Abs(x.n), q)
                       g2 == GCD(p, x.d)
                       q1 == IF g1 = 0 THEN 1 ELSE q \div g1
                       n1 == IF g1 = 0 THEN 0 ELSE x.n \div g1
                   IN Frac(n1 * (p \div g2), (x.d \div g2) * q1)

RLess(x, y) == LET l == Lcm(x.d, y.d) IN x.n * (l \div x.d) < y.n * (l \div y.d)

RLeq(x, y) == ~RLess(y, x)

RMin(x, y) == IF RLess(y, x) THEN y ELSE x

RMax(x, y) == IF RLess(x, y) THEN y ELSE x

RECURSIVE RSum(_)
RSum(s) == IF s = <<>> THEN Whole(0) ELSE RAdd(s[1], RSum(Tail(s)))

RECURSIVE SumSeq(_)
SumSeq(s) == IF s = <<>> THEN 0 ELSE s[1] + SumSeq(Tail(s))

(* dict.get(key, default) *)
Get(d, key, default) == IF key \in DOMAIN d THEN d[key] ELSE default

(* truthiness of an optional dict argument: None and {} are both false *)
Truthy(opt) == opt # <<>> /\ DOMAIN opt[1] # {}

----------------------------------------------------------------------------
(* Reference tables of sample_data.py *)

SMALL_VENDOR_TYPES ==
  {"Street Vendor - Food", "Street Vendor - Goods", "Small Hawker/Peddler",
   "Roadside Stall", "Mobile Vendor", "Kiosk/Booth", "Small Dhaba",
   "Pan/Cigarette Shop", "Fruit/Vegetable Vendor", "Tea Stall"}

BUSINESS_TYPES ==
  {"Small Shop", "Mega Mart", "MNC (Multinational Corporation)",
   "Office/Corporate", "Rental Business", "Service Provider", "Manufacturing",
   "E-commerce", "Restaurant/Food Service", "Healthcare/Medical",
   "Educational Institution", "Real Estate Developer", "Import/Export Trading",
   "Jewelry/Gold Business", "Construction Company"} \cup SMALL_VENDOR_TYPES

(* BUSINESS_BENCHMARKS[t]: the fields the engine reads; expected_tax_rate in percent *)
BUSINESS_BENCHMARKS(t) ==
  CASE
     t = "Small Shop" ->
       [electricity_kwh_per_sqft |-> <<5, 15>>,
        revenue_per_sqft |-> <<500, 3000>>,
        employees_per_outlet |-> <<1, 10>>,
        expected_tax_rate |-> <<15, 25>>]
  [] t = "Mega Mart" ->
       [electricity_kwh_per_sqft |-> <<10, 25>>,
        revenue_per_sqft |-> <<1000, 5000>>,
        employees_per_outlet |-> <<50, 300>>,
        expected_tax_rate |-> <<20, 30>>]
  [] t = "MNC (Multinational Corporation)" ->
       [electricity_kwh_per_sqft |-> <<8, 20>>,
        revenue_per_sqft |-> <<2000, 10000>>,
        employees_per_outlet |-> <<20, 200>>,
        expected_tax_rate |-> <<22, 35>>]
  [] t = "Office/Corporate" ->
       [electricity_kwh_per_sqft |-> <<6, 15>>,
        revenue_per_sqft |-> <<1500, 8000>>,
        employees_per_outlet |-> <<10, 100>>,
        expected_tax_rate |-> <<20, 32>>]
  [] t = "Rental Business" ->
       [electricity_kwh_per_sqft |-> <<2, 8>>,
        revenue_per_sqft |-> <<200, 1500>>,
        employees_per_outlet |-> <<1, 5>>,
        expected_tax_rate |-> <<15, 28>>]
  [] t = "Service Provider" ->
       [electricity_kwh_per_sqft |-> <<5, 12>>,
        revenue_per_sqft |-> <<1000, 6000>>,
        employees_per_outlet |-> <<5, 50>>,
        expected_tax_rate |-> <<18, 30>>]
  [] t = "Manufacturing" ->
       [electricity_kwh_per_sqft |-> <<20, 80>>,
        revenue_per_sqft |-> <<500, 3000>>,
        employees_per_outlet |-> <<50, 500>>,
        expected_tax_rate |-> <<20, 32>>]
  [] t = "E-commerce" ->
       [electricity_kwh_per_sqft |-> <<15, 40>>,
        revenue_per_sqft |-> <<5000, 20000>>,
        employees_per_outlet |-> <<10, 200>>,
        expected_tax_rate |-> <<18, 28>>]
  [] t = "Restaurant/Food Service" ->
       [electricity_kwh_per_sqft |-> <<25, 60>>,
        revenue_per_sqft |-> <<800, 4000>>,
        employees_per_outlet |-> <<5, 30>>,
        expected_tax_rate |-> <<15, 25>>]
  [] t = "Healthcare/Medical" ->
       [electricity_kwh_per_sqft |-> <<15, 35>>,
        revenue_per_sqft |-> <<2000, 15000>>,
        employees_per_outlet |-> <<10, 100>>,
        expected_tax_rate |-> <<18, 30>>]
  [] t = "Educational Institution" ->
       [electricity_kwh_per_sqft |-> <<8, 20>>,
        revenue_per_sqft |-> <<500, 2000>>,
        employees_per_outlet |-> <<20, 200>>,
        expected_tax_rate |-> <<0, 15>>]
  [] t = "Real Estate Developer" ->
       [electricity_kwh_per_sqft |-> <<2, 10>>,
        revenue_per_sqft |-> <<1000, 5000>>,
        employees_per_outlet |-> <<10, 100>>,
        expected_tax_rate |-> <<20, 35>>]
  [] t = "Import/Export Trading" ->
       [electricity_kwh_per_sqft |-> <<5, 15>>,
        revenue_per_sqft |-> <<2000, 15000>>,
        employees_per_outlet |-> <<5, 50>>,
        expected_tax_rate |-> <<18, 30>>]
  [] t = "Jewelry/Gold Business" ->
       [electricity_kwh_per_sqft |-> <<8, 20>>,
        revenue_per_sqft |-> <<5000, 50000>>,
        employees_per_outlet |-> <<3, 20>>,
        expected_tax_rate |-> <<15, 28>>]
  [] t = "Construction Company" ->
       [electricity_kwh_per_sqft |-> <<10, 30>>,
        revenue_per_sqft |-> <<1000, 5000>>,
        employees_per_outlet |-> <<20, 200>>,
        expected_tax_rate |-> <<18, 30>>]
  [] t = "Street Vendor - Food" ->
       [electricity_kwh_per_sqft |-> <<0, 5>>,
        revenue_per_sqft |-> <<5000, 30000>>,
        employees_per_outlet |-> <<1, 3>>,
        expected_tax_rate |-> <<0, 10>>,
        daily_revenue_range |-> <<500, 5000>>]
  [] t = "Street Vendor - Goods" ->
       [electricity_kwh_per_sqft |-> <<0, 3>>,
        revenue_per_sqft |-> <<3000, 20000>>,
        employees_per_outlet |-> <<1, 4>>,
        expected_tax_rate |-> <<0, 10>>,
        daily_revenue_range |-> <<1000, 15000>>]
  [] t = "Small Hawker/Peddler" ->
       [electricity_kwh_per_sqft |-> <<0, 0>>,
        revenue_per_sqft |-> <<0, 0>>,
        employees_per_outlet |-> <<1, 2>>,
        expected_tax_rate |-> <<0, 5>>,
        daily_revenue_range |-> <<200, 2000>>]
  [] t = "Roadside Stall" ->
       [electricity_kwh_per_sqft |-> <<2, 10>>,
        revenue_per_sqft |-> <<2000, 15000>>,
        employees_per_outlet |-> <<1, 5>>,
        expected_tax_rate |-> <<0, 12>>,
        daily_revenue_range |-> <<1000, 10000>>]
  [] t = "Mobile Vendor" ->
       [electricity_kwh_per_sqft |-> <<0, 0>>,
        revenue_per_sqft |-> <<0, 0>>,
        employees_per_outlet |-> <<1, 2>>,
        expected_tax_rate |-> <<0, 5>>,
        daily_revenue_range |-> <<300, 3000>>]
  [] t = "Kiosk/Booth" ->
       [electricity_kwh_per_sqft |-> <<5, 20>>,
        revenue_per_sqft |-> <<3000, 25000>>,
        employees_per_outlet |-> <<1, 3>>,
        expected_tax_rate |-> <<5, 15>>,
        daily_revenue_range |-> <<2000, 20000>>]
  [] t = "Small Dhaba" ->
       [electricity_kwh_per_sqft |-> <<15, 40>>,
        revenue_per_sqft |-> <<1000, 5000>>,
        employees_per_outlet |-> <<3, 10>>,
        expected_tax_rate |-> <<5, 15>>,
        daily_revenue_range |-> <<3000, 25000>>]
  [] t = "Pan/Cigarette Shop" ->
       [electricity_kwh_per_sqft |-> <<3, 10>>,
        revenue_per_sqft |-> <<8000, 50000>>,
        employees_per_outlet |-> <<1, 2>>,
        expected_tax_rate |-> <<5, 15>>,
        daily_revenue_range |-> <<2000, 15000>>]
  [] t = "Fruit/Vegetable Vendor" ->
       [electricity_kwh_per_sqft |-> <<0, 5>>,
        revenue_per_sqft |-> <<2000, 15000>>,
        employees_per_outlet |-> <<1, 3>>,
        expected_tax_rate |-> <<0, 8>>,
        daily_revenue_range |-> <<1000, 8000>>]
  [] t = "Tea Stall" ->
       [electricity_kwh_per_sqft |-> <<10, 30>>,
        revenue_per_sqft |-> <<3000, 20000>>,
        employees_per_outlet |-> <<1, 4>>,
        expected_tax_rate |-> <<0, 10>>,
        daily_revenue_range |-> <<1000, 8000>>]

(* BUSINESS_BENCHMARKS.get(business_type, BUSINESS_BENCHMARKS["Small Shop"]) *)
get_benchmarks_for_type(business_type) ==
  IF business_type \in BUSINESS_TYPES THEN BUSINESS_BENCHMARKS(business_type)
  ELSE BUSINESS_BENCHMARKS("Small Shop")

REGIONS ==
  {"Metro City - Prime (Mumbai, Delhi)", "Metro City - Prime (Bangalore, Chennai)",
   "Metro City - Suburban", "Tier-2 City - Prime", "Tier-2 City - Suburban",
   "Tier-3 City", "Rural/Industrial Zone", "Special Economic Zone",
   "IT Park/Tech Hub", "Street/Footpath Location", "Market Area - Wholesale",
   "Railway Station Area", "Bus Stand Area"}

LAND_RATES_BY_REGION(r) ==
  CASE r = "Metro City - Prime (Mumbai, Delhi)" -> <<25000, 100000>>
  [] r = "Metro City - Prime (Bangalore, Chennai)" -> <<15000, 50000>>
  [] r = "Metro City - Suburban" -> <<8000, 25000>>
  [] r = "Tier-2 City - Prime" -> <<5000, 15000>>
  [] r = "Tier-2 City - Suburban" -> <<2000, 8000>>
  [] r = "Tier-3 City" -> <<1000, 5000>>
  [] r = "Rural/Industrial Zone" -> <<500, 3000>>
  [] r = "Special Economic Zone" -> <<3000, 12000>>
  [] r = "IT Park/Tech Hub" -> <<8000, 25000>>
  [] r = "Street/Footpath Location" -> <<0, 500>>
  [] r = "Market Area - Wholesale" -> <<3000, 15000>>
  [] r = "Railway Station Area" -> <<2000, 10000>>
  [] r = "Bus Stand Area" -> <<1500, 8000>>

(* LAND_RATES_BY_REGION.get(region, (1000, 10000)) *)
get_land_rate_range(region) ==
  IF region \in REGIONS THEN LAND_RATES_BY_REGION(region) ELSE <<1000, 10000>>

----------------------------------------------------------------------------
(* Rule-based pattern detectors (fraud_detection.py 130-405).              *)
(* Each detector walks its conditions in source order; a condition that    *)
(* holds appends its indicator and adds its points.                        *)

Ind(text) == [text |-> text, args |-> <<>>]

(* an f-string indicator: the template and the values formatted into it *)
IndF(text, args) == [text |-> text, args |-> args]

Cond(on, pts, ind) == [on |-> on, pts |-> pts, ind |-> ind]

Triggered(conds) == SelectSeq(conds, LAMBDA c : c.on)

Points(conds) == SumSeq([i \in 1..Len(Triggered(conds)) |-> Triggered(conds)[i].pts])

Indicators(conds) == [i \in 1..Len(Triggered(conds)) |-> Triggered(conds)[i].ind]

(* 2 * np.mean(range) *)
Mean2(range) == range[1] + range[2]

HIGH_TYCOON_LEVELS == {"Close Business Partner", "Family/Direct Relationship"}

(* detect_shell_company without the cap of the score at 100 *)
detect_shell_company_uncapped(bd) ==
  LET benchmarks == get_benchmarks_for_type(bd.business_type)
      expected_elec2 == bd.total_land_sqft * Mean2(benchmarks.electricity_kwh_per_sqft)
      actual_elec == bd.electricity_consumption_kwh
      expected_emp2 == bd.num_outlets * Mean2(benchmarks.employees_per_outlet)
      actual_emp == bd.num_employees
      expected_rev2 == bd.total_land_sqft * Mean2(benchmarks.revenue_per_sqft)
      actual_rev == bd.declared_revenue
      conds == <<
        Cond(10 * actual_elec < expected_elec2, 30,
             Ind("Extremely low electricity consumption - possible ghost office")),
        Cond(20 * actual_emp < expected_emp2 \/ actual_emp < 3, 25,
             Ind("Minimal employee count - paper company indicator")),
        Cond(2 * actual_rev > 3 * expected_rev2 /\ 20 * actual_elec < 3 * expected_elec2, 35,
             Ind("High revenue with low operational footprint")),
        Cond(Get(bd, "years_in_operation", 5) <= 2 /\ actual_rev > 10000000, 20,
             Ind("New company with unusually high revenue")) >>
      shell_score == Points(conds)
  IN [is_likely_shell |-> shell_score >= 50,
      shell_score |-> shell_score,
      indicators |-> Indicators(conds),
      fraud_type |-> "shell_company"]

(* detect_shell_company with electricity at exactly 20% of expected counted as low *)
detect_shell_company_inclusive(bd) ==
  LET benchmarks == get_benchmarks_for_type(bd.business_type)
      expected_elec2 == bd.total_land_sqft * Mean2(benchmarks.electricity_kwh_per_sqft)
      actual_elec == bd.electricity_consumption_kwh
      expected_emp2 == bd.num_outlets * Mean2(benchmarks.employees_per_outlet)
      actual_emp == bd.num_employees
      expected_rev2 == bd.total_land_sqft * Mean2(benchmarks.revenue_per_sqft)
      actual_rev == bd.declared_revenue
      conds == <<
        Cond(10 * actual_elec <= expected_elec2, 30,
             Ind("Extremely low electricity consumption - possible ghost office")),
        Cond(20 * actual_emp < expected_emp2 \/ actual_emp < 3, 25,
             Ind("Minimal employee count - paper company indicator")),
        Cond(2 * actual_rev > 3 * expected_rev2 /\ 20 * actual_elec < 3 * expected_elec2, 35,
             Ind("High revenue with low operational footprint")),
        Cond(Get(bd, "years_in_operation", 5) <= 2 /\ actual_rev > 10000000, 20,
             Ind("New company with unusually high revenue")) >>
      shell_score == Points(conds)
  IN [is_likely_shell |-> shell_score >= 50,
      shell_score |-> Min(100, shell_score),
      indicators |-> Indicators(conds),
      fraud_type |-> "shell_company"]

detect_shell_company(bd) ==
  LET benchmarks == get_benchmarks_for_type(bd.business_type)
      expected_elec2 == bd.total_land_sqft * Mean2(benchmarks.electricity_kwh_per_sqft)
      actual_elec == bd.electricity_consumption_kwh
      expected_emp2 == bd.num_outlets * Mean2(benchmarks.employees_per_outlet)
      actual_emp == bd.num_employees
      expected_rev2 == bd.total_land_sqft * Mean2(benchmarks.revenue_per_sqft)
      actual_rev == bd.declared_revenue
      conds == <<
        Cond(10 * actual_elec < expected_elec2, 30,
             Ind("Extremely low electricity consumption - possible ghost office")),
        Cond(20 * actual_emp < expected_emp2 \/ actual_emp < 3, 25,
             Ind("Minimal employee count - paper company indicator")),
        Cond(2 * actual_rev > 3 * expected_rev2 /\ 20 * actual_elec < 3 * expected_elec2, 35,
             Ind("High revenue with low operational footprint")),
        Cond(Get(bd, "years_in_operation", 5) <= 2 /\ actual_rev > 10000000, 20,
             Ind("New company with unusually high revenue")) >>
      shell_score == Points(conds)
  IN [is_likely_shell |-> shell_score >= 50,
      shell_score |-> Min(100, shell_score),
      indicators |-> Indicators(conds),
      fraud_type |-> "shell_company"]

CASH_INTENSIVE_TYPES ==
  {"Restaurant/Food Service", "Jewelry/Gold Business", "Small Shop",
   "Real Estate Developer"} \cup SMALL_VENDOR_TYPES

(* detect_money_laundering with the cash-intensive test cut off at 4x *)
detect_money_laundering_band(bd) ==
  LET benchmarks == get_benchmarks_for_type(bd.business_type)
      expected_rev2 == bd.total_land_sqft * Mean2(benchmarks.revenue_per_sqft)
      actual_rev == bd.declared_revenue
      tycoon_level == Get(bd, "tycoon_connection_level", "None")
      conds == <<
        Cond(2 * actual_rev > 4 * expected_rev2, 30,
             Ind("Revenue significantly exceeds business capacity - possible money integration")),
        Cond(bd.business_type \in CASH_INTENSIVE_TYPES /\ 2 * actual_rev > 2 * expected_rev2
               /\ 2 * actual_rev <= 6 * expected_rev2, 25,
             Ind("Cash-intensive business with unusually high revenue")),
        Cond(tycoon_level \in HIGH_TYCOON_LEVELS /\ 4 * actual_rev > 3 * expected_rev2, 30,
             Ind("High-risk connections with inflated revenue")) >>
      ml_score == Points(conds)
  IN [is_likely_laundering |-> ml_score >= 50,
      laundering_score |-> Min(100, ml_score),
      indicators |-> Indicators(conds),
      fraud_type |-> "money_laundering"]

detect_money_laundering(bd) ==
  LET benchmarks == get_benchmarks_for_type(bd.business_type)
      expected_rev2 == bd.total_land_sqft * Mean2(benchmarks.revenue_per_sqft)
      actual_rev == bd.declared_revenue
      tycoon_level == Get(bd, "tycoon_connection_level", "None")
      conds == <<
        Cond(2 * actual_rev > 4 * expected_rev2, 30,
             Ind("Revenue significantly exceeds business capacity - possible money integration")),
        Cond(bd.business_type \in CASH_INTENSIVE_TYPES /\ 2 * actual_rev > 2 * expected_rev2, 25,
             Ind("Cash-intensive business with unusually high revenue")),
        Cond(tycoon_level \in HIGH_TYCOON_LEVELS /\ 4 * actual_rev > 3 * expected_rev2, 30,
             Ind("High-risk connections with inflated revenue")) >>
      ml_score == Points(conds)
  IN [is_likely_laundering |-> ml_score >= 50,
      laundering_score |-> Min(100, ml_score),
      indicators |-> Indicators(conds),
      fraud_type |-> "money_laundering"]

detect_black_money(bd) ==
  LET benchmarks == get_benchmarks_for_type(bd.business_type)
      expected_rev2 == bd.total_land_sqft * Mean2(benchmarks.revenue_per_sqft)
      actual_rev == bd.declared_revenue
      (* tax / max(rev, 1) < mean(rate) * 0.3, the rate in percent:        *)
      (* 2000 * tax < 3 * Mean2(rate) * max(rev, 1), divided through by    *)
      (* 3 * Mean2(rate) to stay within TLC's integers                     *)
      k == 3 * Mean2(benchmarks.expected_tax_rate)
      low_tax == k > 0 /\ Max(actual_rev, 1) > (2000 * bd.declared_tax_paid) \div k
      total_land_value == bd.total_land_sqft * bd.land_rate_per_sqft
      land_rate_range == get_land_rate_range(bd.region)
      conds == <<
        Cond(10 * actual_rev < 2 * expected_rev2, 35,
             Ind("Significantly under-reported revenue - likely cash hoarding")),
        Cond(low_tax, 25,
             Ind("Extremely low effective tax rate")),
        Cond(total_land_value > actual_rev * 10, 30,
             Ind("Asset value far exceeds declared income capacity")),
        Cond(10 * bd.land_rate_per_sqft < 4 * land_rate_range[1], 25,
             Ind("Severely undervalued land - possible benami property")) >>
      bm_score == Points(conds)
  IN [is_likely_black_money |-> bm_score >= 50,
      black_money_score |-> Min(100, bm_score),
      indicators |-> Indicators(conds),
      fraud_type |-> "black_money"]

(* detect_circular_trading with 50 points for the first condition *)
detect_circular_trading_heavy(bd) ==
  LET benchmarks == get_benchmarks_for_type(bd.business_type)
      expected_rev2 == bd.total_land_sqft * Mean2(benchmarks.revenue_per_sqft)
      actual_rev == bd.declared_revenue
      conds == <<
        Cond(2 * actual_rev > 5 * expected_rev2, 50,
             Ind("Revenue massively exceeds operational capacity - possible fake invoices")),
        Cond(bd.business_type = "Import/Export Trading" /\ 2 * actual_rev > 3 * expected_rev2, 30,
             Ind("Trading business with inflated transactions")),
        Cond(Get(bd, "years_in_operation", 5) <= 3 /\ actual_rev > 50000000, 25,
             Ind("New entity with massive transaction volume")) >>
      ct_score == Points(conds)
  IN [is_likely_circular |-> ct_score >= 50,
      circular_score |-> Min(100, ct_score),
      indicators |-> Indicators(conds),
      fraud_type |-> "circular_trading"]

detect_circular_trading(bd) ==
  LET benchmarks == get_benchmarks_for_type(bd.business_type)
      expected_rev2 == bd.total_land_sqft * Mean2(benchmarks.revenue_per_sqft)
      actual_rev == bd.declared_revenue
      conds == <<
        Cond(2 * actual_rev > 5 * expected_rev2, 35,
             Ind("Revenue massively exceeds operational capacity - possible fake invoices")),
        Cond(bd.business_type = "Import/Export Trading" /\ 2 * actual_rev > 3 * expected_rev2, 30,
             Ind("Trading business with inflated transactions")),
        Cond(Get(bd, "years_in_operation", 5) <= 3 /\ actual_rev > 50000000, 25,
             Ind("New entity with massive transaction volume")) >>
      ct_score == Points(conds)
  IN [is_likely_circular |-> ct_score >= 50,
      circular_score |-> Min(100, ct_score),
      indicators |-> Indicators(conds),
      fraud_type |-> "circular_trading"]

detect_benami_property(bd) ==
  LET actual_rev == bd.declared_revenue
      land_value == bd.total_land_sqft * bd.land_rate_per_sqft
      land_rate_range == get_land_rate_range(bd.region)
      conds == <<
        Cond(land_value > actual_rev * 15, 35,
             Ind("Property value grossly disproportionate to income")),
        Cond(10 * bd.land_rate_per_sqft < 3 * land_rate_range[1], 30,
             Ind("Land significantly undervalued vs market rates")),
        Cond("tycoon_connection_level" \in DOMAIN bd
               /\ bd.tycoon_connection_level \in HIGH_TYCOON_LEVELS, 25,
             Ind("High-risk political/tycoon connections with property")) >>
      bp_score == Points(conds)
  IN [is_likely_benami |-> bp_score >= 50,
      benami_score |-> Min(100, bp_score),
      indicators |-> Indicators(conds),
      fraud_type |-> "benami_property"]

(* detect_front_operation with three bank accounts already counted as multiple *)
detect_front_operation_three_accounts(bd, lifestyle_data) ==
  IF bd.business_type \notin SMALL_VENDOR_TYPES
  THEN [is_likely_front |-> FALSE, front_score |-> 0, indicators |-> <<>>,
        fraud_type |-> "front_operation"]
  ELSE
  LET benchmarks == BUSINESS_BENCHMARKS(bd.business_type)
      has_daily == "daily_revenue_range" \in DOMAIN benchmarks
      expected_annual_high == IF has_daily THEN benchmarks.daily_revenue_range[2] * 300 ELSE 0
      actual_rev == bd.declared_revenue
      has_life == Truthy(lifestyle_data)
      life == IF has_life THEN lifestyle_data[1] ELSE <<>>
      vehicle == Get(life, "vehicle", "None")
      property_type == Get(life, "property", "Rented (Basic)")
      education == Get(life, "education", "Government School")
      conds == <<
        Cond(has_daily /\ actual_rev > expected_annual_high * 2, 35,
             IndF("Revenue ({actual_rev}) far exceeds expected for vendor type", <<actual_rev>>)),
        Cond(has_life /\ vehicle \in {"Four-wheeler (Mid-range)", "Four-wheeler (Luxury)",
                                      "Multiple Vehicles"}, 25,
             IndF("Luxury vehicle ({vehicle}) inconsistent with small vendor income", <<vehicle>>)),
        Cond(has_life /\ property_type \in {"Owned (Multiple Properties)",
                                            "Owned (Premium/Luxury)"}, 25,
             Ind("Premium property ownership inconsistent with vendor income")),
        Cond(has_life /\ education \in {"International School", "Abroad Education"}, 15,
             Ind("High-cost education for children inconsistent with vendor income")),
        Cond(Get(bd, "num_bank_accounts", 1) >= 3, 20,
             Ind("Multiple bank accounts unusual for small vendor")),
        Cond(Get(bd, "upi_transaction_volume", 0) > 1000000, 20,
             Ind("High UPI transaction volume unusual for vendor type")) >>
      front_score == Points(conds)
  IN [is_likely_front |-> front_score >= 50,
      front_score |-> Min(100, front_score),
      indicators |-> Indicators(conds),
      fraud_type |-> "front_operation"]

detect_front_operation(bd, lifestyle_data) ==
  IF bd.business_type \notin SMALL_VENDOR_TYPES
  THEN [is_likely_front |-> FALSE, front_score |-> 0, indicators |-> <<>>,
        fraud_type |-> "front_operation"]
  ELSE
  LET benchmarks == BUSINESS_BENCHMARKS(bd.business_type)
      has_daily == "daily_revenue_range" \in DOMAIN benchmarks
      expected_annual_high == IF has_daily THEN benchmarks.daily_revenue_range[2] * 300 ELSE 0
      actual_rev == bd.declared_revenue
      has_life == Truthy(lifestyle_data)
      life == IF has_life THEN lifestyle_data[1] ELSE <<>>
      vehicle == Get(life, "vehicle", "None")
      property_type == Get(life, "property", "Rented (Basic)")
      education == Get(life, "education", "Government School")
      conds == <<
        Cond(has_daily /\ actual_rev > expected_annual_high * 2, 35,
             IndF("Revenue ({actual_rev}) far exceeds expected for vendor type", <<actual_rev>>)),
        Cond(has_life /\ vehicle \in {"Four-wheeler (Mid-range)", "Four-wheeler (Luxury)",
                                      "Multiple Vehicles"}, 25,
             IndF("Luxury vehicle ({vehicle}) inconsistent with small vendor income", <<vehicle>>)),
        Cond(has_life /\ property_type \in {"Owned (Multiple Properties)",
                                            "Owned (Premium/Luxury)"}, 25,
             Ind("Premium property ownership inconsistent with vendor income")),
        Cond(has_life /\ education \in {"International School", "Abroad Education"}, 15,
             Ind("High-cost education for children inconsistent with vendor income")),
        Cond(Get(bd, "num_bank_accounts", 1) > 3, 20,
             Ind("Multiple bank accounts unusual for small vendor")),
        Cond(Get(bd, "upi_transaction_volume", 0) > 1000000, 20,
             Ind("High UPI transaction volume unusual for vendor type")) >>
      front_score == Points(conds)
  IN [is_likely_front |-> front_score >= 50,
      front_score |-> Min(100, front_score),
      indicators |-> Indicators(conds),
      fraud_type |-> "front_operation"]

detect_cash_layering(bd, transaction_data) ==
  IF bd.business_type \notin SMALL_VENDOR_TYPES
  THEN [is_likely_layering |-> FALSE, layering_score |-> 0, indicators |-> <<>>,
        fraud_type |-> "cash_layering"]
  ELSE
  LET has_txn == Truthy(transaction_data)
      txn == IF has_txn THEN transaction_data[1] ELSE <<>>
      cash_deposits == Get(txn, "cash_deposit_total", 0)
      declared_rev == bd.declared_revenue
      threshold_txns == Get(txn, "threshold_transaction_count", 0)
      round_txns == Get(txn, "round_transaction_count", 0)
      total_txns == Get(txn, "transaction_count", 1)
      conds == <<
        Cond(has_txn /\ 2 * cash_deposits > declared_rev, 30,
             IndF("Cash deposits ({cash_deposits}) exceed 50% of declared revenue",
                  <<cash_deposits>>)),
        Cond(has_txn /\ threshold_txns >= 3, 35,
             IndF("{threshold_txns} transactions just below 50,000 threshold - structuring suspected",
                  <<threshold_txns>>)),
        Cond(has_txn /\ 10 * round_txns > 4 * total_txns, 20,
             Ind("High proportion of round figure transactions")),
        Cond(Get(bd, "connected_to_high_value", FALSE), 25,
             Ind("Connections to high-value businesses - potential layering point")) >>
      layering_score == Points(conds)
  IN [is_likely_layering |-> layering_score >= 50,
      layering_score |-> Min(100, layering_score),
      indicators |-> Indicators(conds),
      fraud_type |-> "cash_layering"]

detect_vendor_network_fraud(bd, network_data) ==
  LET has_net == Truthy(network_data)
      net == IF has_net THEN network_data[1] ELSE <<>>
      connected_vendors == Get(net, "connected_vendor_count", 0)
      common_supplier == Get(net, "common_supplier_connections", 0)
      shared_address == Get(net, "shared_address_count", 0)
      family_connections == Get(net, "family_business_count", 0)
      conds == <<
        Cond(has_net /\ connected_vendors >= 5, 25,
             IndF("Connected to {connected_vendors} other vendors - potential network",
                  <<connected_vendors>>)),
        Cond(has_net /\ common_supplier >= 3, 30,
             Ind("Multiple vendors with common supplier - circular arrangement possible")),
        Cond(has_net /\ shared_address >= 2, 35,
             IndF("{shared_address} entities at same address - shell network indicator",
                  <<shared_address>>)),
        Cond(has_net /\ family_connections >= 3, 25,
             IndF("{family_connections} family-connected businesses - benami network possible",
                  <<family_connections>>)) >>
      network_score == Points(conds)
  IN [is_likely_network_fraud |-> network_score >= 50,
      network_score |-> Min(100, network_score),
      indicators |-> Indicators(conds),
      fraud_type |-> "vendor_network"]

(* the keys of a detector's result in insertion order (the order of its return dict) *)
ResultKeys(fraud_type) ==
  CASE fraud_type = "shell_company" -> <<"is_likely_shell", "shell_score", "indicators", "fraud_type">>
  [] fraud_type = "money_laundering" -> <<"is_likely_laundering", "laundering_score", "indicators", "fraud_type">>
  [] fraud_type = "black_money" -> <<"is_likely_black_money", "black_money_score", "indicators", "fraud_type">>
  [] fraud_type = "circular_trading" -> <<"is_likely_circular", "circular_score", "indicators", "fraud_type">>
  [] fraud_type = "benami_property" -> <<"is_likely_benami", "benami_score", "indicators", "fraud_type">>
  [] fraud_type = "front_operation" -> <<"is_likely_front", "front_score", "indicators", "fraud_type">>
  [] fraud_type = "cash_layering" -> <<"is_likely_layering", "layering_score", "indicators", "fraud_type">>
  [] fraud_type = "vendor_network" -> <<"is_likely_network_fraud", "network_score", "indicators", "fraud_type">>

(* run_all_fraud_checks: the checks dict as the sequence of its items, in insertion order *)
run_all_fraud_checks(bd, lifestyle_data, transaction_data, network_data) ==
  << <<"shell_company", detect_shell_company(bd)>>,
     <<"money_laundering", detect_money_laundering(bd)>>,
     <<"black_money", detect_black_money(bd)>>,
     <<"circular_trading", detect_circular_trading(bd)>>,
     <<"benami_property", detect_benami_property(bd)>> >>
  \o (IF bd.business_type \in SMALL_VENDOR_TYPES
      THEN << <<"front_operation", detect_front_operation(bd, lifestyle_data)>>,
              <<"cash_layering", detect_cash_layering(bd, transaction_data)>>,
              <<"vendor_network", detect_vendor_network_fraud(bd, network_data)>> >>
      ELSE <<>>)

----------------------------------------------------------------------------
(* calculate_expected_metrics (sample_data.py 768-801): the three ranges   *)
(* the range checks read                                                   *)

calculate_expected_metrics(business_type, num_outlets, total_land_sqft) ==
  LET benchmarks == get_benchmarks_for_type(business_type)
      has_daily == "daily_revenue_range" \in DOMAIN benchmarks
      is_small_vendor == business_type \in SMALL_VENDOR_TYPES \/ has_daily
  IN [electricity_range |-> <<total_land_sqft * benchmarks.electricity_kwh_per_sqft[1],
                              total_land_sqft * benchmarks.electricity_kwh_per_sqft[2]>>,
      revenue_range |->
        IF is_small_vendor /\ has_daily
        THEN <<benchmarks.daily_revenue_range[1] * 300 * num_outlets,
               benchmarks.daily_revenue_range[2] * 300 * num_outlets>>
        ELSE <<total_land_sqft * benchmarks.revenue_per_sqft[1],
               total_land_sqft * benchmarks.revenue_per_sqft[2]>>,
      employees_range |-> <<num_outlets * benchmarks.employees_per_outlet[1],
                            num_outlets * benchmarks.employees_per_outlet[2]>>,
      is_small_vendor |-> is_small_vendor]

----------------------------------------------------------------------------
(* analyze_business (fraud_detection.py 424-586) *)

(* actual < range[0] * 0.5 or actual > range[1] * 2 *)
OutOfRange(actual, range) == 2 * actual < range[1] \/ actual > range[2] * 2

(* min(100, abs(actual - np.mean(range)) / max(np.mean(range), 1) * 50) *)
AnomalyScore(actual, range) ==
  LET dev2 == Abs(2 * actual - Mean2(range))
      mid2 == Max(Mean2(range), 2)
  IN IF dev2 >= 2 * mid2 THEN Whole(100) ELSE Frac(50 * dev2, mid2)

(* the keys of a detector result that contain "score" *)
SCORE_KEYS == {"shell_score", "laundering_score", "black_money_score", "circular_score",
               "benami_score", "front_score", "layering_score", "network_score"}

(* f"{check_name}_score" in str(check_result): no value of a result holds   *)
(* the text "_score", so the test succeeds iff that text is one of its keys *)
ScoreKeyInResult(check_name, check_result) ==
  (check_name \o "_score") \in DOMAIN check_result

(* lines 446-451: the detector scores copied into anomaly_scores *)
RECURSIVE DetectorAnomalies(_)
DetectorAnomalies(checks) ==
  IF checks = <<>> THEN <<>>
  ELSE LET check_name == checks[1][1]
           check_result == checks[1][2]
           keys == ResultKeys(check_result.fraud_type)
           scored == SelectSeq(keys, LAMBDA key : key \in SCORE_KEYS)
       IN (IF ScoreKeyInResult(check_name, check_result) /\ scored # <<>>
           THEN << <<check_name, Whole(check_result[scored[Len(scored)]])>> >>
           ELSE <<>>)
          \o DetectorAnomalies(Tail(checks))

(* str.replace("_", " ").title() of the eight check names *)
Title(name) ==
  CASE name = "shell_company" -> "Shell Company"
  [] name = "money_laundering" -> "Money Laundering"
  [] name = "black_money" -> "Black Money"
  [] name = "circular_trading" -> "Circular Trading"
  [] name = "benami_property" -> "Benami Property"
  [] name = "front_operation" -> "Front Operation"
  [] name = "cash_layering" -> "Cash Layering"
  [] name = "vendor_network" -> "Vendor Network"

IsFlagged(check_result) == check_result[ResultKeys(check_result.fraud_type)[1]]

(* lines 453-460: the flagged checks, in the order of the checks dict *)
MatchedPatterns(checks) ==
  LET flagged == SelectSeq(checks, LAMBDA c : IsFlagged(c[2]))
  IN [i \in 1..Len(flagged) |->
        [type |-> Title(flagged[i][2].fraud_type),
         score |-> flagged[i][2][ResultKeys(flagged[i][2].fraud_type)[2]],
         indicators |-> flagged[i][2].indicators]]

(* lines 462-468: one HIGH risk factor per indicator of a flagged check *)
RECURSIVE PatternRiskFactors(_)
PatternRiskFactors(checks) ==
  IF checks = <<>> THEN <<>>
  ELSE LET check_name == checks[1][1]
           check_result == checks[1][2]
           score_val == check_result[ResultKeys(check_result.fraud_type)[2]]
       IN (IF IsFlagged(check_result)
           THEN [i \in 1..Len(check_result.indicators) |->
                   [factor |-> Title(check_name) \o " Indicator",
                    severity |-> "HIGH",
                    description |-> check_result.indicators[i],
                    score |-> Whole(score_val)]]
           ELSE <<>>)
          \o PatternRiskFactors(Tail(checks))

Severity(score) == IF RLess(score, Whole(50)) THEN "MEDIUM" ELSE "HIGH"

(* lines 470-501: the three range checks, each giving at most one entry of *)
(* anomaly_scores and one risk factor                                      *)
ElectricityCheck(bd, expected) ==
  LET actual == bd.electricity_consumption_kwh
      range == expected.electricity_range
      score == AnomalyScore(actual, range)
  IN IF OutOfRange(actual, range)
     THEN << [name |-> "electricity_anomaly", score |-> score,
              factor |-> [factor |-> "Electricity Consumption Anomaly",
                          severity |-> Severity(score),
                          description |-> IndF("Consumption {actual_elec} kWh outside expected range {lo}-{hi} kWh",
                                               <<actual, range[1], range[2]>>),
                          score |-> score]] >>
     ELSE <<>>

RevenueCheck(bd, expected) ==
  LET actual == bd.declared_revenue
      range == expected.revenue_range
      score == AnomalyScore(actual, range)
  IN IF OutOfRange(actual, range)
     THEN << [name |-> "revenue_anomaly", score |-> score,
              factor |-> [factor |-> "Revenue Anomaly",
                          severity |-> Severity(score),
                          description |-> IndF("Revenue {actual_rev} outside expected range {lo}-{hi}",
                                               <<actual, range[1], range[2]>>),
                          score |-> score]] >>
     ELSE <<>>

EmployeeCheck(bd, expected) ==
  LET actual == bd.num_employees
      range == expected.employees_range
      score == AnomalyScore(actual, range)
  IN IF OutOfRange(actual, range)
     THEN << [name |-> "employee_anomaly", score |-> score,
              factor |-> [factor |-> "Employee Count Anomaly",
                          severity |-> "MEDIUM",
                          description |-> IndF("{actual_emp} employees outside expected range {lo}-{hi}",
                                               <<actual, range[1], range[2]>>),
                          score |-> score]] >>
     ELSE <<>>

RangeChecks(bd, expected) ==
  ElectricityCheck(bd, expected) \o RevenueCheck(bd, expected) \o EmployeeCheck(bd, expected)

(* sorted(risk_factors, key=score, reverse=True): stable, descending *)
RECURSIVE InsertByScore(_, _)
InsertByScore(sorted, x) ==
  IF sorted = <<>> THEN <<x>>
  ELSE IF RLess(sorted[1].score, x.score) THEN <<x>> \o sorted
  ELSE <<sorted[1]>> \o InsertByScore(Tail(sorted), x)

RECURSIVE SortByScoreDesc(_)
SortByScoreDesc(s) ==
  IF s = <<>> THEN <<>>
  ELSE InsertByScore(SortByScoreDesc(SubSeq(s, 1, Len(s) - 1)), s[Len(s)])

(* lines 521-532: the three model outputs and their blend.  ml.if_score is *)
(* decision_function's value in hundredths, ml.rf_proba and ml.xgb_proba   *)
(* are predict_proba's class-1 values in percent                           *)
(* if_normalized without the clip of line 523 *)
IfNormalized_unclipped(ml) == 100 - (ml.if_score + 50)

IfNormalized(ml) == Max(0, Min(100, 100 - (ml.if_score + 50)))

MlEnsemble(ml, xgb_fitted) ==
  IF xgb_fitted
  THEN Frac(30 * IfNormalized(ml) + 35 * ml.rf_proba + 35 * ml.xgb_proba, 100)
  ELSE Frac(40 * IfNormalized(ml) + 60 * ml.rf_proba, 100)

MlScoresDetail(ml, xgb_fitted) ==
  [isolation_forest_score |-> IfNormalized(ml),
   random_forest_score |-> ml.rf_proba,
   xgboost_score |-> IF xgb_fitted THEN ml.xgb_proba ELSE ml.rf_proba,
   ensemble_score |-> MlEnsemble(ml, xgb_fitted)]

(* line 541 *)
PatternScore(matched_patterns) ==
  IF matched_patterns # <<>>
  THEN Frac(SumSeq([i \in 1..Len(matched_patterns) |-> matched_patterns[i].score]),
            Max(Len(matched_patterns), 1))
  ELSE Whole(0)

(* line 542: np.mean of the values of anomaly_scores *)
AnomalyAvg(anomaly_scores) ==
  IF anomaly_scores # <<>>
  THEN RScale(RSum([i \in 1..Len(anomaly_scores) |-> anomaly_scores[i][2]]),
              1, Len(anomaly_scores))
  ELSE Whole(0)

(* lines 544-545 with the weights of the pattern and anomaly terms exchanged *)
FraudProbability_swapped(ml_ensemble, pattern_score, anomaly_avg) ==
  LET raw == RAdd(RAdd(RScale(ml_ensemble, 40, 100), RScale(pattern_score, 25, 100)),
                  RScale(anomaly_avg, 35, 100))
  IN RMin(Whole(100), RMax(Whole(0), raw))

(* lines 544-545 *)
FraudProbability(ml_ensemble, pattern_score, anomaly_avg) ==
  LET raw == RAdd(RAdd(RScale(ml_ensemble, 40, 100), RScale(pattern_score, 35, 100)),
                  RScale(anomaly_avg, 25, 100))
  IN RMin(Whole(100), RMax(Whole(0), raw))

(* lines 547-556 with exclusive lower bounds *)
RiskLevel_exclusive(fraud_probability) ==
  IF RLess(Whole(80), fraud_probability) THEN "CRITICAL"
  ELSE IF RLess(Whole(60), fraud_probability) THEN "VERY HIGH"
  ELSE IF RLess(Whole(40), fraud_probability) THEN "HIGH"
  ELSE IF RLess(Whole(25), fraud_probability) THEN "MODERATE"
  ELSE "LOW"

(* lines 547-556 *)
RiskLevel(fraud_probability) ==
  IF RLeq(Whole(80), fraud_probability) THEN "CRITICAL"
  ELSE IF RLeq(Whole(60), fraud_probability) THEN "VERY HIGH"
  ELSE IF RLeq(Whole(40), fraud_probability) THEN "HIGH"
  ELSE IF RLeq(Whole(25), fraud_probability) THEN "MODERATE"
  ELSE "LOW"

(* lines 558-564 *)
Recommendations(risk_level) ==
  CASE risk_level = "LOW" -> "Standard periodic monitoring. No immediate action required."
  [] risk_level = "MODERATE" -> "Enhanced scrutiny recommended. Request additional documentation within 30 days."
  [] risk_level = "HIGH" -> "Initiate preliminary investigation under Section 131. Request comprehensive records."
  [] risk_level = "VERY HIGH" -> "Urgent detailed audit required. Consider Section 142(2A) special audit."
  [] risk_level = "CRITICAL" -> "Immediate multi-agency investigation. Consider search under Section 132."

(* round(x, 1) for x >= 0.  Python rounds the binary float, which lies an  *)
(* ulp to either side of a computed value: where the exact value is a tie  *)
(* (..x5 in the second decimal) either neighbour can come out              *)
Round1(x) ==
  LET tenths == (x.n \div x.d) * 10 + ((x.n % x.d) * 10) \div x.d
      rest == ((x.n % x.d) * 10) % x.d
  IN IF 2 * rest < x.d THEN {Frac(tenths, 10)}
     ELSE IF 2 * rest > x.d THEN {Frac(tenths + 1, 10)}
     ELSE {Frac(tenths, 10), Frac(tenths + 1, 10)}

----------------------------------------------------------------------------
(* Exceptions.  The engine holds no try/except and no validation: a call  *)
(* fails exactly when business_data["key"] is evaluated for a key the     *)
(* profile lacks, with KeyError(key) from the first such subscript.  The  *)
(* keys each function subscripts are listed in evaluation order.          *)

NoKey == ""

(* a failure that names the first key subscripted, missing or not *)
FirstMissing_first_subscript(keys, d) ==
  IF \A i \in 1..Len(keys) : keys[i] \in DOMAIN d THEN NoKey ELSE keys[1]

(* the first key of the sequence that the dict lacks, NoKey if it has all *)
FirstMissing(keys, d) ==
  LET missing == {i \in 1..Len(keys) : keys[i] \notin DOMAIN d}
  IN IF missing = {} THEN NoKey
     ELSE keys[CHOOSE i \in missing : \A j \in missing : i <= j]

(* lines 134-150, 171-182, 203-223, 238-246, 266-274: unconditional reads; *)
(* lines 293-301, 342-347: the type first, the revenue only for a vendor   *)
(* (every vendor benchmark has a daily_revenue_range; the revenue of       *)
(* detect_cash_layering is read only under a non-empty transaction_data);  *)
(* detect_vendor_network_fraud subscripts nothing                          *)
SubscriptedKeys(check_name, d, transaction_data) ==
  CASE check_name = "shell_company" ->
         <<"business_type", "total_land_sqft", "electricity_consumption_kwh",
           "num_outlets", "num_employees", "declared_revenue">>
    [] check_name = "money_laundering" ->
         <<"business_type", "total_land_sqft", "declared_revenue">>
    [] check_name = "black_money" ->
         <<"business_type", "total_land_sqft", "declared_revenue", "declared_tax_paid",
           "land_rate_per_sqft", "region">>
    [] check_name = "circular_trading" ->
         <<"business_type", "total_land_sqft", "declared_revenue">>
    [] check_name = "benami_property" ->
         <<"declared_revenue", "total_land_sqft", "land_rate_per_sqft", "region">>
    [] check_name = "front_operation" ->
         IF "business_type" \in DOMAIN d /\ d.business_type \in SMALL_VENDOR_TYPES
         THEN <<"business_type", "declared_revenue">> ELSE <<"business_type">>
    [] check_name = "cash_layering" ->
         IF /\ "business_type" \in DOMAIN d
            /\ d.business_type \in SMALL_VENDOR_TYPES
            /\ Truthy(transaction_data)
         THEN <<"business_type", "declared_revenue">> ELSE <<"business_type">>
    [] check_name = "vendor_network" -> <<>>

(* the key whose KeyError a detector raises on the profile, NoKey if it returns *)
DetectorKeyError(check_name, d, transaction_data) ==
  FirstMissing(SubscriptedKeys(check_name, d, transaction_data), d)

(* lines 410-421: the steps of run_all_fraud_checks in order; the vendor  *)
(* detectors run only after line 417 has read the type                     *)
CheckOrder == <<"shell_company", "money_laundering", "black_money", "circular_trading",
                "benami_property">>

(* the failure of run_all_fraud_checks: the first detector that raises,   *)
(* and its key; after the five detectors have returned the profile holds   *)
(* every key the rest of the call subscripts                               *)
run_all_fraud_checks_raises(d, transaction_data) ==
  LET failing == {i \in 1..Len(CheckOrder) :
                    DetectorKeyError(CheckOrder[i], d, transaction_data) # NoKey}
  IN IF failing = {} THEN [exception |-> "none"]
     ELSE LET first == CHOOSE i \in failing : \A j \in failing : i <= j
          IN [exception |-> "KeyError",
              key |-> DetectorKeyError(CheckOrder[first], d, transaction_data),
              raised_in |-> CheckOrder[first]]

(* the failure of analyze_business: lines 432, 438, 439 subscript the     *)
(* type, the outlets and the area before line 442 runs the detectors       *)
analyze_business_raises(d, transaction_data) ==
  LET own == FirstMissing(<<"business_type", "num_outlets", "total_land_sqft">>, d)
  IN IF own # NoKey
     THEN [exception |-> "KeyError", key |-> own, raised_in |-> "analyze_business"]
     ELSE run_all_fraud_checks_raises(d, transaction_data)

----------------------------------------------------------------------------
(* Connection graph: FraudNetworkAnalyzer (network_analysis.py 23-161).    *)
(* self.nodes is a function from entity ids to the stored dicts, self.edges *)
(* the list of added connections in insertion order.  Of a stored node the *)
(* model keeps id, type, name and risk_score, of an edge from, to, type    *)
(* and strength; "data" and "metadata" are copied through by the source    *)
(* and read by no computation.                                             *)

(* add_entity (29-36): entity_data.get("type", "unknown"),                 *)
(* entity_data.get("name", "Unknown"), entity_data.get("risk_score", 0);   *)
(* an existing id is overwritten                                           *)
add_entity(self_nodes, entity_id, entity_data) ==
  LET node == [id |-> entity_id,
               type |-> Get(entity_data, "type", "unknown"),
               name |-> Get(entity_data, "name", "Unknown"),
               risk_score |-> Get(entity_data, "risk_score", 0)]
  IN [k \in DOMAIN self_nodes \cup {entity_id} |->
        IF k = entity_id THEN node ELSE self_nodes[k]]

(* add_connection with the edge put in front of the list *)
add_connection_prepend(self_edges, from_id, to_id, connection_type, strength) ==
  <<[from |-> from_id, to |-> to_id, type |-> connection_type,
     strength |-> strength]>> \o self_edges

(* add_connection (38-52); strength is a fraction *)
add_connection(self_edges, from_id, to_id, connection_type, strength) ==
  Append(self_edges, [from |-> from_id, to |-> to_id, type |-> connection_type,
                      strength |-> strength])

(* the default of add_connection's parameter strength: 0.5 *)
DefaultStrength == Frac(1, 2)

(* self.nodes.get(entity_id, {}) *)
NodeOf(self_nodes, entity_id) ==
  IF entity_id \in DOMAIN self_nodes THEN self_nodes[entity_id] ELSE <<>>

(* lines 59-62: the endpoints in the order the loop increments them *)
RECURSIVE Endpoints(_)
Endpoints(self_edges) ==
  IF self_edges = <<>> THEN <<>>
  ELSE <<self_edges[1].from, self_edges[1].to>> \o Endpoints(Tail(self_edges))

(* connection_counts[entity_id]: one for every edge end that is entity_id *)
ConnectionCount(self_edges, entity_id) ==
  Cardinality({i \in 1..Len(self_edges) : self_edges[i].from = entity_id})
  + Cardinality({i \in 1..Len(self_edges) : self_edges[i].to = entity_id})

(* the keys of connection_counts in insertion order *)
RECURSIVE FirstOccurrences(_, _)
FirstOccurrences(s, seen) ==
  IF s = <<>> THEN <<>>
  ELSE IF s[1] \in seen THEN FirstOccurrences(Tail(s), seen)
  ELSE <<s[1]>> \o FirstOccurrences(Tail(s), seen \cup {s[1]})

(* lines 64-67 with a hub being an entity of exactly three connections *)
HubEntities_exactly_three(self_edges) ==
  SelectSeq(FirstOccurrences(Endpoints(self_edges), {}),
            LAMBDA entity_id : ConnectionCount(self_edges, entity_id) = 3)

(* lines 64-67 *)
HubEntities(self_edges) ==
  SelectSeq(FirstOccurrences(Endpoints(self_edges), {}),
            LAMBDA entity_id : ConnectionCount(self_edges, entity_id) > 3)

(* lines 69-78 with a hub of risk exactly 50 counted as high-risk *)
HighRiskClusters_inclusive(self_nodes, self_edges) ==
  LET risky == SelectSeq(HubEntities(self_edges),
                         LAMBDA entity_id :
                           Get(NodeOf(self_nodes, entity_id), "risk_score", 0) >= 50)
  IN [i \in 1..Len(risky) |->
        [hub |-> risky[i],
         connection_count |-> ConnectionCount(self_edges, risky[i]),
         risk_score |-> Get(NodeOf(self_nodes, risky[i]), "risk_score", 0)]]

(* lines 69-78 *)
HighRiskClusters(self_nodes, self_edges) ==
  LET risky == SelectSeq(HubEntities(self_edges),
                         LAMBDA entity_id :
                           Get(NodeOf(self_nodes, entity_id), "risk_score", 0) > 50)
  IN [i \in 1..Len(risky) |->
        [hub |-> risky[i],
         connection_count |-> ConnectionCount(self_edges, risky[i]),
         risk_score |-> Get(NodeOf(self_nodes, risky[i]), "risk_score", 0)]]

(* lines 80-120 with a family edge flagged only when both ends are high-risk *)
EdgeFindings_both_kin(self_nodes, edge) ==
  LET from_entity == NodeOf(self_nodes, edge.from)
      to_entity == NodeOf(self_nodes, edge.to)
      flow == /\ edge.type = "financial"
              /\ Get(from_entity, "type", "None") = "small_vendor"
              /\ Get(to_entity, "type", "None") = "high_value_business"
      kin == /\ edge.type = "family"
             /\ Get(from_entity, "risk_score", 0) > 60
             /\ Get(to_entity, "risk_score", 0) > 60
      shared == edge.type = "common_address"
  IN (IF flow THEN << [from |-> edge.from, to |-> edge.to,
                       type |-> "vendor_to_business_flow", risk |-> "HIGH", pts |-> 20] >>
      ELSE <<>>)
     \o (IF kin THEN << [from |-> edge.from, to |-> edge.to,
                         type |-> "family_connection", risk |-> "MEDIUM", pts |-> 10] >>
         ELSE <<>>)
     \o (IF shared THEN << [from |-> edge.from, to |-> edge.to,
                            type |-> "shared_location", risk |-> "MEDIUM", pts |-> 8] >>
         ELSE <<>>)

(* lines 80-120: what one edge appends to suspicious_connections and adds  *)
(* to network_risk_score                                                   *)
EdgeFindings(self_nodes, edge) ==
  LET from_entity == NodeOf(self_nodes, edge.from)
      to_entity == NodeOf(self_nodes, edge.to)
      flow == /\ edge.type = "financial"
              /\ Get(from_entity, "type", "None") = "small_vendor"
              /\ Get(to_entity, "type", "None") = "high_value_business"
      kin == /\ edge.type = "family"
             /\ \/ Get(from_entity, "risk_score", 0) > 60
                \/ Get(to_entity, "risk_score", 0) > 60
      shared == edge.type = "common_address"
  IN (IF flow THEN << [from |-> edge.from, to |-> edge.to,
                       type |-> "vendor_to_business_flow", risk |-> "HIGH", pts |-> 20] >>
      ELSE <<>>)
     \o (IF kin THEN << [from |-> edge.from, to |-> edge.to,
                         type |-> "family_connection", risk |-> "MEDIUM", pts |-> 10] >>
         ELSE <<>>)
     \o (IF shared THEN << [from |-> edge.from, to |-> edge.to,
                            type |-> "shared_location", risk |-> "MEDIUM", pts |-> 8] >>
         ELSE <<>>)

RECURSIVE SuspiciousFindings(_, _)
SuspiciousFindings(self_nodes, self_edges) ==
  IF self_edges = <<>> THEN <<>>
  ELSE EdgeFindings(self_nodes, self_edges[1])
       \o SuspiciousFindings(self_nodes, Tail(self_edges))

(* analyze_network (54-130), without analysis_timestamp (the wall clock) *)
analyze_network(self_nodes, self_edges) ==
  LET high_risk_clusters == HighRiskClusters(self_nodes, self_edges)
      findings == SuspiciousFindings(self_nodes, self_edges)
      network_risk_score == 15 * Len(high_risk_clusters)
                            + SumSeq([i \in 1..Len(findings) |-> findings[i].pts])
  IN [total_entities |-> Cardinality(DOMAIN self_nodes),
      total_connections |-> Len(self_edges),
      hub_entities |-> HubEntities(self_edges),
      high_risk_clusters |-> high_risk_clusters,
      suspicious_connections |->
        [i \in 1..Len(findings) |-> [from |-> findings[i].from, to |-> findings[i].to,
                                     type |-> findings[i].type, risk |-> findings[i].risk]],
      network_risk_score |-> Min(100, network_risk_score)]

(* find_connected_entities (132-161).  st holds the closure's two shared   *)
(* locals, visited and connected; dfs returns them as the call leaves them *)
RECURSIVE dfs(_, _, _, _, _, _, _)
RECURSIVE dfs_edges(_, _, _, _, _, _, _, _)
dfs(self_edges, entity_id, max_depth, st, current_id, depth, path) ==
  IF depth > max_depth \/ current_id \in st.visited THEN st
  ELSE LET entered ==
             [visited |-> st.visited \cup {current_id},
              connected |-> IF current_id # entity_id
                            THEN Append(st.connected, [entity_id |-> current_id,
                                                       distance |-> depth,
                                                       path |-> path])
                            ELSE st.connected]
       IN dfs_edges(self_edges, entity_id, max_depth, entered, current_id, depth, path, 1)

(* the loop `for edge in self.edges` of dfs, from edge i on *)
dfs_edges(self_edges, entity_id, max_depth, st, current_id, depth, path, i) ==
  IF i > Len(self_edges) THEN st
  ELSE LET edge == self_edges[i]
           next_id == IF edge.from = current_id THEN <<edge.to>>
                      ELSE IF edge.to = current_id THEN <<edge.from>>
                      ELSE <<>>
           after == IF next_id # <<>> /\ next_id[1] \notin st.visited
                    THEN dfs(self_edges, entity_id, max_depth, st, next_id[1], depth + 1,
                             Append(path, edge.type))
                    ELSE st
       IN dfs_edges(self_edges, entity_id, max_depth, after, current_id, depth, path, i + 1)

find_connected_entities(self_edges, entity_id, max_depth) ==
  dfs(self_edges, entity_id, max_depth, [visited |-> {}, connected |-> <<>>],
      entity_id, 0, <<>>).connected


(* get_network_visualization_data (163-206): the colour of a node by its   *)
(* risk score                                                              *)
NodeColor(risk) ==
  IF risk > 70 THEN "#dc3545"
  ELSE IF risk > 50 THEN "#fd7e14"
  ELSE IF risk > 30 THEN "#ffc107"
  ELSE "#28a745"

(* lines 187-193 *)
EdgeColor(edge_type) ==
  IF edge_type = "financial" THEN "#dc3545"
  ELSE IF edge_type = "family" THEN "#007bff"
  ELSE IF edge_type = "business" THEN "#28a745"
  ELSE "#999999"

(* s[:20] *)
First20(s) == SubSeq(s, 1, Min(20, Len(s)))

(* self.nodes.items(): the keys in insertion order are not kept by the     *)
(* model; nodes_list is held as the set of its entries                     *)
get_network_visualization_data(self_nodes, self_edges) ==
  [nodes |-> {[id |-> node_id,
               label |-> First20(Get(self_nodes[node_id], "name", node_id)),
               type |-> Get(self_nodes[node_id], "type", "unknown"),
               risk_score |-> Get(self_nodes[node_id], "risk_score", 0),
               color |-> NodeColor(Get(self_nodes[node_id], "risk_score", 0)),
               size |-> RAdd(Whole(10),
                             Frac(Get(self_nodes[node_id], "risk_score", 0), 10))] :
              node_id \in DOMAIN self_nodes},
   edges |-> [i \in 1..Len(self_edges) |->
                [from |-> self_edges[i].from,
                 to |-> self_edges[i].to,
                 type |-> self_edges[i].type,
                 color |-> EdgeColor(self_edges[i].type),
                 width |-> RAdd(Whole(1),
                                RScale(Get(self_edges[i], "strength", DefaultStrength),
                                       3, 1))]]]
----------------------------------------------------------------------------
(* Historical case matcher: get_similar_fraud_cases (sample_data.py        *)
(* 804-822) over MAJOR_INDIAN_FRAUD_CASES (421-530).  Strings are TLA+     *)
(* strings; Len, SubSeq and \o work on them character by character.  Of a  *)
(* catalogued case the model keeps name and key_indicators; the other      *)
(* fields are copied into the result unread.                               *)

MAJOR_INDIAN_FRAUD_CASES ==
  <<
    [name |-> "Sahara India Pariwar",
     key_indicators |-> <<"massive undisclosed cash", "hidden assets", "multiple shell entities">>],
    [name |-> "Satyam Balajee Group",
     key_indicators |-> <<"shell firms", "fake transactions", "under-reporting">>],
    [name |-> "Nationwide Bogus Deductions Scam",
     key_indicators |-> <<"fake HRA claims", "fabricated medical expenses", "inflated refunds">>],
    [name |-> "Nirav Modi - PNB Fraud",
     key_indicators |-> <<"unauthorized LoUs", "circular trading", "offshore accounts">>],
    [name |-> "Vijay Mallya - Kingfisher",
     key_indicators |-> <<"loan diversion", "inflated valuations", "asset stripping">>],
    [name |-> "Kolkata Shell Company Network",
     key_indicators |-> <<"bogus share capital", "off-book cash", "minimal operations">>],
    [name |-> "Private Educational Institution Scam",
     key_indicators |-> <<"unreported admission cash", "distributed through staff accounts", "capitation fees">>],
    [name |-> "Real Estate Undervaluation Networks",
     key_indicators |-> <<"undervalued properties", "cash components", "benami transactions">>],
    [name |-> "Circular Trading GST Fraud",
     key_indicators |-> <<"fake invoices", "no goods movement", "ITC claims">>],
    [name |-> "Multi-City Fake Deduction Rackets",
     key_indicators |-> <<"organized CA networks", "fake rent receipts", "fabricated 80C claims">>],
    [name |-> "Street Vendor Front Operation - Mumbai",
     key_indicators |-> <<"small stall with luxury lifestyle", "high cash deposits", "connection to real estate">>],
    [name |-> "Pan Shop Hawala Network - Delhi",
     key_indicators |-> <<"multiple SIM cards", "frequent border travel", "gold purchases">>] >>

(* str.lower() of one character; the catalogue and the indicators hold no *)
(* letters outside A-Z, a-z                                                *)
LowerChar(c) ==
  CASE c = "A" -> "a" [] c = "B" -> "b" [] c = "C" -> "c" [] c = "D" -> "d"
  [] c = "E" -> "e" [] c = "F" -> "f" [] c = "G" -> "g" [] c = "H" -> "h"
  [] c = "I" -> "i" [] c = "J" -> "j" [] c = "K" -> "k" [] c = "L" -> "l"
  [] c = "M" -> "m" [] c = "N" -> "n" [] c = "O" -> "o" [] c = "P" -> "p"
  [] c = "Q" -> "q" [] c = "R" -> "r" [] c = "S" -> "s" [] c = "T" -> "t"
  [] c = "U" -> "u" [] c = "V" -> "v" [] c = "W" -> "w" [] c = "X" -> "x"
  [] c = "Y" -> "y" [] c = "Z" -> "z" [] OTHER -> c

(* str.lower() *)
RECURSIVE Lower(_)
Lower(s) == IF s = "" THEN "" ELSE LowerChar(SubSeq(s, 1, 1)) \o Lower(SubSeq(s, 2, Len(s)))

(* str.split(): the maximal runs of non-blank characters *)
RECURSIVE SplitFrom(_, _, _)
SplitFrom(s, i, word) ==
  IF i > Len(s) THEN (IF word = "" THEN <<>> ELSE <<word>>)
  ELSE IF SubSeq(s, i, i) = " "
       THEN (IF word = "" THEN <<>> ELSE <<word>>) \o SplitFrom(s, i + 1, "")
       ELSE SplitFrom(s, i + 1, word \o SubSeq(s, i, i))

Split(s) == SplitFrom(s, 1, "")

(* word in text: substring test *)
Contains(text, word) ==
  \E i \in 1..(Len(text) - Len(word) + 1) : SubSeq(text, i, i + Len(word) - 1) = word

(* line 812: any(word in indicator_lower for word in key_indicator.lower().split()) *)
KeyIndicatorMatches(key_indicator, indicator_lower) ==
  LET words == Split(Lower(key_indicator))
  IN \E k \in 1..Len(words) : Contains(indicator_lower, words[k])

(* lines 808-814: one point per supplied indicator that some key indicator *)
(* of the case matches (the break leaves the inner loop at the first)      *)
MatchScore(case, fraud_indicators) ==
  Cardinality({i \in 1..Len(fraud_indicators) :
                 \E k \in 1..Len(case.key_indicators) :
                   KeyIndicatorMatches(case.key_indicators[k], Lower(fraud_indicators[i]))})

(* sorted(similar_cases, key=match_score, reverse=True): stable, descending *)
RECURSIVE InsertByMatch(_, _)
InsertByMatch(sorted, x) ==
  IF sorted = <<>> THEN <<x>>
  ELSE IF sorted[1].match_score < x.match_score THEN <<x>> \o sorted
  ELSE <<sorted[1]>> \o InsertByMatch(Tail(sorted), x)

RECURSIVE SortByMatchDesc(_)
SortByMatchDesc(s) ==
  IF s = <<>> THEN <<>>
  ELSE InsertByMatch(SortByMatchDesc(SubSeq(s, 1, Len(s) - 1)), s[Len(s)])

(* lines 816-820: the cases with a positive score, in catalogue order *)
ScoredCases(fraud_indicators) ==
  LET scored == [c \in 1..Len(MAJOR_INDIAN_FRAUD_CASES) |->
                   [name |-> MAJOR_INDIAN_FRAUD_CASES[c].name,
                    key_indicators |-> MAJOR_INDIAN_FRAUD_CASES[c].key_indicators,
                    match_score |-> MatchScore(MAJOR_INDIAN_FRAUD_CASES[c], fraud_indicators)]]
  IN SelectSeq(scored, LAMBDA x : x.match_score > 0)

(* line 822 with the cut made before the sort *)
get_similar_fraud_cases_cut_first(fraud_indicators) ==
  LET similar_cases == ScoredCases(fraud_indicators)
  IN SortByMatchDesc(SubSeq(similar_cases, 1, Min(5, Len(similar_cases))))

get_similar_fraud_cases(fraud_indicators) ==
  LET similar_cases == SortByMatchDesc(ScoredCases(fraud_indicators))
  IN SubSeq(similar_cases, 1, Min(5, Len(similar_cases)))

----------------------------------------------------------------------------
(* Inputs *)

Profile(t, o, sqft, region, rate, elec, rev, tax, emp, tycoon, years) ==
  [business_type |-> t, num_outlets |-> o, total_land_sqft |-> sqft, region |-> region,
   land_rate_per_sqft |-> rate, electricity_consumption_kwh |-> elec,
   declared_revenue |-> rev, declared_tax_paid |-> tax, num_employees |-> emp,
   is_stock_listed |-> FALSE, tycoon_connection_level |-> tycoon,
   years_in_operation |-> years]

(* the two end-to-end scenarios of the specification *)
ScenarioA == Profile("Small Shop", 1, 1000, "Tier-2 City - Prime", 9000, 6000, 1000000,
                     150000, 5, "None", 5)

ScenarioB == Profile("Small Shop", 1, 1000, "Tier-2 City - Prime", 9000, 200, 15000000,
                     150000, 1, "None", 1)

(* a profile whose rule-based part is all 100: black money alone matches   *)
(* with every condition, electricity and staff are far above their ranges  *)
ScenarioAllHundred == Profile("Small Shop", 1, 1000, "Metro City - Prime (Mumbai, Delhi)",
                              9000, 31000, 300000, 0, 25, "None", 5)

MaxOutlets == 2

(* operational footprint of a 1000 sqft shop, on and around the thresholds *)
(* of detect_shell_company and of the range checks                         *)
FootprintProfiles ==
  {Profile("Small Shop", 1, 1000, "Tier-2 City - Prime", 9000, elec, rev, 150000, emp,
           "None", years) :
     elec \in {0, 200, 1999, 2000, 2999, 3000, 6000, 31000},
     rev \in {100000, 1000000, 5250000, 5250001, 10000000, 10000001, 15000000},
     emp \in {0, 2, 3, 25},
     years \in {2, 3}}

(* declared revenue against land value, tax and connections *)
LandAndRate == {<<"Tier-2 City - Prime", 9000>>, <<"Tier-2 City - Prime", 1900>>,
                <<"Tier-2 City - Prime", 1400>>,
                <<"Metro City - Prime (Mumbai, Delhi)", 9000>>}

RevenueProfiles ==
  {Profile(t, 1, 1000, lr[1], lr[2], 6000, rev, tax, 5, tycoon, years) :
     t \in {"Small Shop", "Import/Export Trading", "Unlisted Category"},
     lr \in LandAndRate,
     rev \in {0, 300000, 3000000, 8000000, 30000000, 60000000},
     tax \in {0, 150000},
     tycoon \in {"None", "Close Business Partner"},
     years \in {3, 5}}

(* staffing against the number of outlets *)
StaffingProfiles ==
  {Profile(t, o, 1000, "Tier-2 City - Prime", 9000, 6000, rev, 150000, emp, "None", 5) :
     t \in {"Small Shop", "Import/Export Trading", "Tea Stall"},
     o \in 1..MaxOutlets,
     rev \in {1000000, 15000000},
     emp \in {0, 1, 2, 3, 4, 5, 6, 25, 101, 201}}

(* micro-vendors, with and without the optional keys the vendor detectors read *)
VendorExtras ==
  {<<>>, [num_bank_accounts |-> 3], [num_bank_accounts |-> 4],
   [upi_transaction_volume |-> 2000000], [connected_to_high_value |-> TRUE],
   [num_bank_accounts |-> 4, upi_transaction_volume |-> 2000000,
    connected_to_high_value |-> TRUE],
   [num_bank_accounts |-> 1, upi_transaction_volume |-> 1000000,
    connected_to_high_value |-> FALSE]}

VendorProfiles ==
  {Profile(t, 1, sqft, "Street/Footpath Location", 300, elec, rev, 0, 2, "None", 5) @@ extra :
     t \in {"Tea Stall", "Small Hawker/Peddler", "Street Vendor - Food"},
     sqft \in {0, 100},
     elec \in {0, 10000},
     rev \in {0, 500000, 4800000, 6000000},
     extra \in VendorExtras}

(* a dict with the keys `drop` removed *)
Without(d, drop) == [k \in DOMAIN d \ drop |-> d[k]]

(* profiles that leave out the keys analyze_business reads with a default *)
MinimalProfiles ==
  {Without(p, drop) :
     p \in {ScenarioA, ScenarioB,
            Profile("Small Shop", 1, 1000, "Tier-2 City - Prime", 1400, 6000, 60000000,
                    150000, 5, "Family/Direct Relationship", 1)},
     drop \in {{"years_in_operation"}, {"tycoon_connection_level"},
               {"years_in_operation", "tycoon_connection_level", "is_stock_listed"}}}

BusinessProfiles ==
  {ScenarioA, ScenarioB, ScenarioAllHundred} \cup FootprintProfiles \cup RevenueProfiles
    \cup StaffingProfiles \cup VendorProfiles \cup MinimalProfiles

NoArg == <<>>

Arg(d) == <<d>>

LifestyleInputs ==
  {NoArg, Arg(<<>>),
   Arg([vehicle |-> "Four-wheeler (Luxury)", property |-> "Owned (Premium/Luxury)",
        education |-> "Abroad Education"]),
   Arg([vehicle |-> "Two-wheeler (Basic)", property |-> "Owned (Multiple Properties)",
        education |-> "International School"]),
   Arg([vehicle |-> "Four-wheeler (Mid-range)"]),
   Arg([education |-> "Government School"])}

TransactionInputs ==
  {NoArg, Arg(<<>>),
   Arg([cash_deposit_total |-> 3000000, threshold_transaction_count |-> 3,
        round_transaction_count |-> 5, transaction_count |-> 10]),
   Arg([cash_deposit_total |-> 250000, threshold_transaction_count |-> 2,
        round_transaction_count |-> 4, transaction_count |-> 10]),
   Arg([threshold_transaction_count |-> 4, round_transaction_count |-> 1])}

NetworkInputs ==
  {NoArg, Arg(<<>>),
   Arg([connected_vendor_count |-> 5, common_supplier_connections |-> 3,
        shared_address_count |-> 2, family_business_count |-> 3]),
   Arg([connected_vendor_count |-> 4, common_supplier_connections |-> 2,
        shared_address_count |-> 1, family_business_count |-> 2]),
   Arg([shared_address_count |-> 2]),
   Arg([common_supplier_connections |-> 3, shared_address_count |-> 2])}

(* the optional arguments of one analyze_business call *)
AuxInputs ==
  {<<NoArg, NoArg, NoArg>>,
   <<Arg(<<>>), Arg(<<>>), Arg(<<>>)>>,
   <<Arg([vehicle |-> "Four-wheeler (Luxury)", property |-> "Owned (Premium/Luxury)",
          education |-> "Abroad Education"]),
     Arg([cash_deposit_total |-> 3000000, threshold_transaction_count |-> 3,
          round_transaction_count |-> 5, transaction_count |-> 10]),
     Arg([connected_vendor_count |-> 5, common_supplier_connections |-> 3,
          shared_address_count |-> 2, family_business_count |-> 3])>>,
   <<Arg([vehicle |-> "Four-wheeler (Mid-range)"]),
     Arg([threshold_transaction_count |-> 4, round_transaction_count |-> 1]),
     Arg([shared_address_count |-> 2])>>,
   <<Arg([vehicle |-> "Two-wheeler (Basic)", property |-> "Owned (Multiple Properties)",
          education |-> "International School"]),
     NoArg,
     Arg([common_supplier_connections |-> 3, shared_address_count |-> 2])>>,
   <<NoArg,
     Arg([cash_deposit_total |-> 250000, threshold_transaction_count |-> 2,
          round_transaction_count |-> 4, transaction_count |-> 10]),
     Arg([connected_vendor_count |-> 4, common_supplier_connections |-> 2,
          shared_address_count |-> 1, family_business_count |-> 2])>>}

(* outputs of the three fitted models for one feature vector *)
MlOutputs(xgb_fitted) ==
  IF xgb_fitted
  THEN {[if_score |-> m[1], rf_proba |-> m[2], xgb_proba |-> m[3]] :
          m \in {<<-2, 67, 67>>, <<0, 67, 68>>, <<2, 50, 51>>, <<5, 52, 52>>,
                 <<60, 0, 0>>, <<-70, 100, 100>>}}
  ELSE {[if_score |-> m[1], rf_proba |-> m[2], xgb_proba |-> 0] :
          m \in {<<-1, 70>>, <<0, 50>>, <<60, 0>>, <<-70, 100>>}}

----------------------------------------------------------------------------
(* The engine: one constructed FraudDetectionEngine, one call on it *)

Init ==
  /\ business_data \in BusinessProfiles
  /\ xgboost_model \in BOOLEAN
  /\ trained = <<>>
  /\ history = <<>>
  /\ nodes = <<>>
  /\ edges = <<>>
  /\ call = [op |-> "none"]

Idle == call.op = "none"

DetectShellCompany ==
  /\ Idle
  /\ call' = [op |-> "detect_shell_company", result |-> detect_shell_company(business_data)]
  /\ UNCHANGED <<business_data, xgboost_model, trained, history, nodes, edges>>

DetectMoneyLaundering ==
  /\ Idle
  /\ call' = [op |-> "detect_money_laundering", result |-> detect_money_laundering(business_data)]
  /\ UNCHANGED <<business_data, xgboost_model, trained, history, nodes, edges>>

DetectBlackMoney ==
  /\ Idle
  /\ call' = [op |-> "detect_black_money", result |-> detect_black_money(business_data)]
  /\ UNCHANGED <<business_data, xgboost_model, trained, history, nodes, edges>>

DetectCircularTrading ==
  /\ Idle
  /\ call' = [op |-> "detect_circular_trading", result |-> detect_circular_trading(business_data)]
  /\ UNCHANGED <<business_data, xgboost_model, trained, history, nodes, edges>>

DetectBenamiProperty ==
  /\ Idle
  /\ call' = [op |-> "detect_benami_property", result |-> detect_benami_property(business_data)]
  /\ UNCHANGED <<business_data, xgboost_model, trained, history, nodes, edges>>

DetectFrontOperation ==
  /\ Idle
  /\ \E lifestyle_data \in LifestyleInputs :
       call' = [op |-> "detect_front_operation", aux |-> lifestyle_data,
                result |-> detect_front_operation(business_data, lifestyle_data)]
  /\ UNCHANGED <<business_data, xgboost_model, trained, history, nodes, edges>>

DetectCashLayering ==
  /\ Idle
  /\ \E transaction_data \in TransactionInputs :
       call' = [op |-> "detect_cash_layering", aux |-> transaction_data,
                result |-> detect_cash_layering(business_data, transaction_data)]
  /\ UNCHANGED <<business_data, xgboost_model, trained, history, nodes, edges>>

DetectVendorNetworkFraud ==
  /\ Idle
  /\ \E network_data \in NetworkInputs :
       call' = [op |-> "detect_vendor_network_fraud", aux |-> network_data,
                result |-> detect_vendor_network_fraud(business_data, network_data)]
  /\ UNCHANGED <<business_data, xgboost_model, trained, history, nodes, edges>>

(* round(x, 1) is a function of the float x, and the model knows x only  *)
(* as an exact value: a value the engine has rounded in an earlier call    *)
(* rounds the same way again, a new one as Round1 allows                   *)
RoundedAsBefore(x, answered) ==
  LET earlier == {i \in 1..Len(answered) : answered[i].exact = x}
  IN IF earlier = {} THEN Round1(x)
     ELSE {answered[CHOOSE i \in earlier : TRUE].fraud_probability}

(* analyze_business on the profile: KeyError from the first subscript of  *)
(* a missing key, else each local of the source is bound once, in source   *)
(* order, and the returned dict is built from them.  ml_outputs are the    *)
(* outputs the fitted models may give, answered the calls the engine has   *)
(* answered before.                                                        *)
AnalyzeBusinessCall(ml_outputs, answered) ==
  \E aux \in AuxInputs :
    IF analyze_business_raises(business_data, aux[2]).exception # "none"
    THEN call' = [op |-> "analyze_business",
                  lifestyle_data |-> aux[1],
                  transaction_data |-> aux[2],
                  network_data |-> aux[3],
                  raised |-> analyze_business_raises(business_data, aux[2])]
    ELSE
     \E ml \in ml_outputs :
     \E expected \in {calculate_expected_metrics(business_data.business_type,
                                                 business_data.num_outlets,
                                                 business_data.total_land_sqft)} :
     \E all_fraud_checks \in {run_all_fraud_checks(business_data, aux[1], aux[2], aux[3])} :
     \E matched_patterns \in {MatchedPatterns(all_fraud_checks)} :
     \E range_checks \in {RangeChecks(business_data, expected)} :
     \E anomaly_scores \in {DetectorAnomalies(all_fraud_checks)
                            \o [i \in 1..Len(range_checks) |->
                                  <<range_checks[i].name, range_checks[i].score>>]} :
     \E risk_factors \in {PatternRiskFactors(all_fraud_checks)
                          \o [i \in 1..Len(range_checks) |-> range_checks[i].factor]} :
     \E ml_ensemble \in {MlEnsemble(ml, xgboost_model)} :
     \E pattern_score \in {PatternScore(matched_patterns)} :
     \E anomaly_avg \in {AnomalyAvg(anomaly_scores)} :
     \E fraud_probability \in {FraudProbability(ml_ensemble, pattern_score, anomaly_avg)} :
     \E risk_level \in {RiskLevel(fraud_probability)} :
     \E reported_probability \in RoundedAsBefore(fraud_probability, answered), ml_score \in Round1(ml_ensemble) :
       call' = [op |-> "analyze_business",
                lifestyle_data |-> aux[1],
                transaction_data |-> aux[2],
                network_data |-> aux[3],
                ml |-> ml,
                locals |-> [fraud_probability |-> fraud_probability,
                            ml_ensemble |-> ml_ensemble,
                            pattern_score |-> pattern_score,
                            anomaly_avg |-> anomaly_avg],
                result |-> [fraud_probability |-> reported_probability,
                            risk_level |-> risk_level,
                            ml_score |-> ml_score,
                            ml_scores_detail |-> MlScoresDetail(ml, xgboost_model),
                            anomaly_scores |-> anomaly_scores,
                            risk_factors |-> SortByScoreDesc(risk_factors),
                            matched_fraud_patterns |-> matched_patterns,
                            recommendation |-> Recommendations(risk_level),
                            all_fraud_checks |-> all_fraud_checks,
                            is_small_vendor |-> business_data.business_type \in SMALL_VENDOR_TYPES]]

(* one call on a freshly constructed engine, whatever its fitted models *)
AnalyzeBusiness ==
  /\ Idle
  /\ AnalyzeBusinessCall(MlOutputs(xgboost_model), <<>>)
  /\ UNCHANGED <<business_data, xgboost_model, trained, history, nodes, edges>>

Next ==
  \/ DetectShellCompany
  \/ DetectMoneyLaundering
  \/ DetectBlackMoney
  \/ DetectCircularTrading
  \/ DetectBenamiProperty
  \/ DetectFrontOperation
  \/ DetectCashLayering
  \/ DetectVendorNetworkFraud
  \/ AnalyzeBusiness

Spec == Init /\ [][Next]_vars

----------------------------------------------------------------------------
(* The analyzer: one FraudNetworkAnalyzer, built up by add_entity and      *)
(* add_connection and then queried once                                    *)

MaxEdges == 4

MaxDepth == 2

(* a vendor and a business on either side of the risk thresholds 50 and    *)
(* 60, and a person added without a risk score under a name of more than  *)
(* twenty characters                                                       *)
EntityInputs ==
  {<<"vendor", [type |-> "small_vendor", risk_score |-> 50]>>,
   <<"vendor", [type |-> "small_vendor", risk_score |-> 51]>>,
   <<"business", [type |-> "high_value_business", risk_score |-> 60]>>,
   <<"business", [type |-> "high_value_business", risk_score |-> 61]>>,
   <<"person", [type |-> "person", name |-> "Ramesh Kumar Agarwal and Sons"]>>}

(* connections among them and to "supplier", an id never added as entity *)
ConnectionInputs ==
  {<<"vendor", "business", "financial", Whole(1)>>,
   <<"business", "vendor", "financial", DefaultStrength>>,
   <<"business", "person", "family", DefaultStrength>>,
   <<"vendor", "person", "common_address", DefaultStrength>>,
   <<"person", "supplier", "business", DefaultStrength>>}

StartEntities == {"vendor", "person"}

NetworkInit ==
  /\ business_data = <<>>
  /\ xgboost_model = FALSE
  /\ trained = <<>>
  /\ history = <<>>
  /\ nodes = <<>>
  /\ edges = <<>>
  /\ call = [op |-> "none"]

AddEntity ==
  /\ Idle
  /\ \E e \in EntityInputs : nodes' = add_entity(nodes, e[1], e[2])
  /\ UNCHANGED <<business_data, xgboost_model, trained, history, edges, call>>

AddConnection ==
  /\ Idle
  /\ Len(edges) < MaxEdges
  /\ \E c \in ConnectionInputs : edges' = add_connection(edges, c[1], c[2], c[3], c[4])
  /\ UNCHANGED <<business_data, xgboost_model, trained, history, nodes, call>>

AnalyzeNetwork ==
  /\ Idle
  /\ call' = [op |-> "analyze_network", result |-> analyze_network(nodes, edges)]
  /\ UNCHANGED <<business_data, xgboost_model, trained, history, nodes, edges>>

FindConnectedEntities ==
  /\ Idle
  /\ \E entity_id \in StartEntities, max_depth \in 1..MaxDepth :
       call' = [op |-> "find_connected_entities", entity_id |-> entity_id,
                max_depth |-> max_depth,
                result |-> find_connected_entities(edges, entity_id, max_depth)]
  /\ UNCHANGED <<business_data, xgboost_model, trained, history, nodes, edges>>

GetNetworkVisualizationData ==
  /\ Idle
  /\ call' = [op |-> "get_network_visualization_data",
              result |-> get_network_visualization_data(nodes, edges)]
  /\ UNCHANGED <<business_data, xgboost_model, trained, history, nodes, edges>>

NetworkNext ==
  \/ AddEntity
  \/ AddConnection
  \/ AnalyzeNetwork
  \/ FindConnectedEntities
  \/ GetNetworkVisualizationData

NetworkSpec == NetworkInit /\ [][NetworkNext]_vars

----------------------------------------------------------------------------
(* find_connected_entities (132-161) call by call: the interpreter's stack *)
(* of dfs frames, each with its arguments and its position i in the loop   *)
(* `for edge in self.edges` (0: the frame has been called and has not yet  *)
(* passed the test of line 137), and the closure's locals visited and      *)
(* connected.  All of it is held in the variable call.                     *)

MaxSearchEdges == 4

MaxSearchDepth == 2

(* a cycle vendor - business - person - vendor, a self-loop, and an edge   *)
(* to "supplier"; a list may hold the same connection more than once       *)
SearchConnections ==
  {<<"vendor", "business", "financial">>,
   <<"business", "person", "family">>,
   <<"person", "vendor", "common_address">>,
   <<"vendor", "vendor", "business">>,
   <<"person", "supplier", "business">>}

(* the lists of at most n connections *)
RECURSIVE EdgeListsUpTo(_)
EdgeListsUpTo(n) ==
  IF n = 0 THEN {<<>>}
  ELSE EdgeListsUpTo(n - 1)
       \cup {add_connection(es, c[1], c[2], c[3], DefaultStrength) :
               es \in {e \in EdgeListsUpTo(n - 1) : Len(e) = n - 1},
               c \in SearchConnections}

(* the registered entities of the searched graph: "person" and "supplier"  *)
(* appear in connections only                                              *)
SearchNodes ==
  add_entity(add_entity(<<>>, "vendor", [type |-> "small_vendor", risk_score |-> 51]),
             "business", [type |-> "high_value_business", risk_score |-> 61])

(* line 140 without the effect: the entity is not remembered *)
Visit_forgetful(visited, current_id) == visited

(* line 140: visited.add(current_id) *)
Visit(visited, current_id) == visited \cup {current_id}

(* lines 151-155: next_id of an edge seen from current_id, <<>> for None *)
NextId(edge, current_id) ==
  IF edge.from = current_id THEN <<edge.to>>
  ELSE IF edge.to = current_id THEN <<edge.from>>
  ELSE <<>>

(* dfs(entity_id, 0, []) of line 160 has been called *)
SearchInit ==
  /\ business_data = <<>>
  /\ xgboost_model = FALSE
  /\ trained = <<>>
  /\ history = <<>>
  /\ nodes = SearchNodes
  /\ edges \in EdgeListsUpTo(MaxSearchEdges)
  /\ \E entity_id \in StartEntities, max_depth \in (-1)..MaxSearchDepth :
       call = [op |-> "find_connected_entities", pc |-> "running",
               entity_id |-> entity_id, max_depth |-> max_depth,
               visited |-> {}, connected |-> <<>>,
               stack |-> <<[current_id |-> entity_id, depth |-> 0, path |-> <<>>,
                            i |-> 0]>>]

Searching ==
  /\ call.op = "find_connected_entities"
  /\ call.pc = "running"

TopFrame == call.stack[Len(call.stack)]

Popped == SubSeq(call.stack, 1, Len(call.stack) - 1)

(* lines 137-148: the test on entry, visited.add and connected.append *)
DfsEnter ==
  /\ Searching
  /\ call.stack # <<>>
  /\ TopFrame.i = 0
  /\ IF TopFrame.depth > call.max_depth \/ TopFrame.current_id \in call.visited
     THEN call' = [call EXCEPT !.stack = Popped]
     ELSE call' = [call EXCEPT
            !.visited = Visit(@, TopFrame.current_id),
            !.connected =
              IF TopFrame.current_id # call.entity_id
              THEN Append(@, [entity_id |-> TopFrame.current_id,
                              entity |-> NodeOf(nodes, TopFrame.current_id),
                              distance |-> TopFrame.depth,
                              path |-> TopFrame.path])
              ELSE @,
            !.stack = Append(Popped, [TopFrame EXCEPT !.i = 1])]
  /\ UNCHANGED <<business_data, xgboost_model, trained, history, nodes, edges>>

(* lines 150-158: one iteration of the loop over self.edges, or its end *)
DfsLoop ==
  /\ Searching
  /\ call.stack # <<>>
  /\ TopFrame.i > 0
  /\ IF TopFrame.i > Len(edges)
     THEN call' = [call EXCEPT !.stack = Popped]
     ELSE \E next_id \in {NextId(edges[TopFrame.i], TopFrame.current_id)} :
            IF next_id # <<>> /\ next_id[1] # "" /\ next_id[1] \notin call.visited
            THEN call' = [call EXCEPT !.stack =
                   Append(Popped, [TopFrame EXCEPT !.i = @ + 1])
                   \o <<[current_id |-> next_id[1],
                         depth |-> TopFrame.depth + 1,
                         path |-> Append(TopFrame.path, edges[TopFrame.i].type),
                         i |-> 0]>>]
            ELSE call' = [call EXCEPT !.stack =
                   Append(Popped, [TopFrame EXCEPT !.i = @ + 1])]
  /\ UNCHANGED <<business_data, xgboost_model, trained, history, nodes, edges>>

(* line 161: return connected *)
DfsReturn ==
  /\ Searching
  /\ call.stack = <<>>
  /\ call' = [op |-> "find_connected_entities", pc |-> "done",
              entity_id |-> call.entity_id, max_depth |-> call.max_depth,
              result |-> call.connected]
  /\ UNCHANGED <<business_data, xgboost_model, trained, history, nodes, edges>>

SearchNext ==
  \/ DfsEnter
  \/ DfsLoop
  \/ DfsReturn

(* the interpreter runs the call on: a step that can be taken is taken *)
SearchSpec == SearchInit /\ [][SearchNext]_vars /\ WF_vars(SearchNext)

----------------------------------------------------------------------------
(* build_vendor_network (network_analysis.py 209-269)                      *)

(* str() of a digit *)
Digit(n) ==
  CASE n = 0 -> "0" [] n = 1 -> "1" [] n = 2 -> "2" [] n = 3 -> "3" [] n = 4 -> "4"
  [] n = 5 -> "5" [] n = 6 -> "6" [] n = 7 -> "7" [] n = 8 -> "8" [] n = 9 -> "9"

(* str(n) of a natural number *)
RECURSIVE Str(_)
Str(n) == IF n < 10 THEN Digit(n) ELSE Str(n \div 10) \o Digit(n % 10)

(* line 226: f"entity_{len(analyzer.nodes)}" *)
GeneratedId(self_nodes) == "entity_" \o Str(Cardinality(DOMAIN self_nodes))

(* lines 214-223: the analyzer after the primary vendor has been added *)
PrimaryId(primary_vendor) == Get(primary_vendor, "id", "primary")

WithPrimary(primary_vendor) ==
  [nodes |-> add_entity(<<>>, PrimaryId(primary_vendor),
                        [type |-> "small_vendor",
                         name |-> Get(primary_vendor, "name", "Primary Vendor"),
                         risk_score |-> Get(primary_vendor, "risk_score", 50)]),
   edges |-> <<>>,
   entity_ids |-> <<>>]

(* lines 225-240: the loop over related_entities from entity i on; g holds *)
(* the analyzer's nodes and edges and the ids given so far                 *)
RECURSIVE AddRelated(_, _, _, _)
AddRelated(g, primary_id, related_entities, i) ==
  IF i > Len(related_entities) THEN g
  ELSE LET entity == related_entities[i]
           entity_id == Get(entity, "id", GeneratedId(g.nodes))
       IN AddRelated(
            [nodes |-> add_entity(g.nodes, entity_id,
                                  [type |-> Get(entity, "type", "person"),
                                   name |-> Get(entity, "name", "Unknown"),
                                   risk_score |-> Get(entity, "risk_score", 0)]),
             edges |-> add_connection(g.edges, primary_id, entity_id,
                                      Get(entity, "connection_type", "associated"),
                                      Get(entity, "connection_strength", DefaultStrength)),
             entity_ids |-> Append(g.entity_ids, entity_id)],
            primary_id, related_entities, i + 1)

(* lines 243-248: the counterparties named by the transactions, in the     *)
(* order of their first transaction; a missing or empty counterparty is    *)
(* skipped                                                                 *)
CounterpartyNames(transactions) ==
  FirstOccurrences(
    SelectSeq([k \in 1..Len(transactions) |-> Get(transactions[k], "counterparty", "")],
              LAMBDA counterparty : counterparty # ""),
    {})

TransactionsOf(transactions, counterparty) ==
  SelectSeq(transactions, LAMBDA txn : Get(txn, "counterparty", "") = counterparty)

(* counterparties[counterparty]["count"] *)
CounterpartyCount(transactions, counterparty) ==
  Len(TransactionsOf(transactions, counterparty))

(* counterparties[counterparty]["total"] *)
CounterpartyTotal(transactions, counterparty) ==
  SumSeq([k \in 1..Len(TransactionsOf(transactions, counterparty)) |->
            Get(TransactionsOf(transactions, counterparty)[k], "amount", 0)])

(* counterparty[:10] *)
First10(s) == SubSeq(s, 1, Min(10, Len(s)))

(* lines 250-267: the loop over counterparties from the i-th on *)
RECURSIVE AddCounterparties(_, _, _, _, _)
AddCounterparties(g, primary_id, transactions, names, i) ==
  IF i > Len(names) THEN g
  ELSE LET count == CounterpartyCount(transactions, names[i])
           total == CounterpartyTotal(transactions, names[i])
           cp_id == "cp_" \o First10(names[i])
       IN IF (count >= 3 \/ total >= 100000) /\ cp_id \notin DOMAIN g.nodes
          THEN AddCounterparties(
                 [nodes |-> add_entity(g.nodes, cp_id,
                                       [type |-> "counterparty",
                                        name |-> names[i],
                                        risk_score |-> IF total > 500000 THEN 30 ELSE 15]),
                  edges |-> add_connection(g.edges, primary_id, cp_id, "financial",
                                           RMin(Whole(1), Frac(total, 1000000))),
                  entity_ids |-> g.entity_ids],
                 primary_id, transactions, names, i + 1)
          ELSE AddCounterparties(g, primary_id, transactions, names, i + 1)

(* build_vendor_network (209-269); transactions is <<>> for None or an     *)
(* empty list, <<list>> otherwise.  Besides the analyzer's nodes and edges *)
(* the result names the id each related entity was added under.            *)
build_vendor_network(primary_vendor, related_entities, transactions) ==
  LET related == AddRelated(WithPrimary(primary_vendor), PrimaryId(primary_vendor),
                            related_entities, 1)
  IN IF transactions # <<>> /\ transactions[1] # <<>>
     THEN AddCounterparties(related, PrimaryId(primary_vendor), transactions[1],
                            CounterpartyNames(transactions[1]), 1)
     ELSE related

MaxRelated == 2

MaxTransactions == 3

(* a vendor with an id, one without (the id becomes "primary"), with and   *)
(* without further fields                                                  *)
PrimaryVendorInputs ==
  {[id |-> "shop", name |-> "Corner Shop", risk_score |-> 65],
   [name |-> "Corner Shop"],
   [id |-> "shop"]}

(* related entities with ids of the caller, one of them of the form of a   *)
(* generated id, and one without an id                                     *)
RelatedEntityInputs ==
  {[id |-> "owner", type |-> "person", name |-> "Owner", risk_score |-> 40,
    connection_type |-> "family", connection_strength |-> Whole(1)],
   [id |-> "landlord", type |-> "company"],
   [id |-> "entity_1", name |-> "Supplier"],
   [name |-> "Cousin", connection_type |-> "family"]}

(* transactions below and above the thresholds 100000 and 500000, two      *)
(* counterparties alike in their first ten characters, and one transaction *)
(* without a counterparty                                                  *)
VendorTransactionInputs ==
  {[counterparty |-> "Hawala Traders Delhi", amount |-> 40000],
   [counterparty |-> "Hawala Traders Mumbai", amount |-> 600000],
   [counterparty |-> "Agent", amount |-> 100000],
   [amount |-> 250000]}

RECURSIVE SeqsUpTo(_, _)
SeqsUpTo(S, n) ==
  IF n = 0 THEN {<<>>}
  ELSE SeqsUpTo(S, n - 1)
       \cup {Append(s, x) : s \in {t \in SeqsUpTo(S, n - 1) : Len(t) = n - 1}, x \in S}

BuildInit ==
  /\ business_data = <<>>
  /\ xgboost_model = FALSE
  /\ trained = <<>>
  /\ history = <<>>
  /\ nodes = <<>>
  /\ edges = <<>>
  /\ call = [op |-> "none"]

(* analyzer = build_vendor_network(...): nodes and edges are the fields of *)
(* the analyzer returned                                                   *)
BuildVendorNetwork ==
  /\ Idle
  /\ \E primary_vendor \in PrimaryVendorInputs,
        related_entities \in SeqsUpTo(RelatedEntityInputs, MaxRelated),
        transactions \in {<<>>} \cup {<<t>> : t \in SeqsUpTo(VendorTransactionInputs, MaxTransactions)} :
       \E built \in {build_vendor_network(primary_vendor, related_entities, transactions)} :
         /\ nodes' = built.nodes
         /\ edges' = built.edges
         /\ call' = [op |-> "build_vendor_network",
                     primary_vendor |-> primary_vendor,
                     related_entities |-> related_entities,
                     transactions |-> transactions,
                     entity_ids |-> built.entity_ids]
  /\ UNCHANGED <<business_data, xgboost_model, trained, history>>

BuildNext == BuildVendorNetwork

BuildSpec == BuildInit /\ [][BuildNext]_vars

----------------------------------------------------------------------------
(* The case matcher: one call of get_similar_fraud_cases *)

MaxIndicators == 4

(* indicator strings the detectors produce, and one in capitals *)
IndicatorInputs ==
  {"Cash-intensive business with unusually high revenue",
   "Multiple bank accounts unusual for small vendor",
   "Revenue massively exceeds operational capacity - possible fake invoices",
   "SHELL FIRMS"}

RECURSIVE ListsUpTo(_)
ListsUpTo(n) ==
  IF n = 0 THEN {<<>>}
  ELSE ListsUpTo(n - 1)
       \cup {Append(l, x) : l \in {m \in ListsUpTo(n - 1) : Len(m) = n - 1},
                            x \in IndicatorInputs}

CasesInit ==
  /\ business_data = <<>>
  /\ xgboost_model = FALSE
  /\ trained = <<>>
  /\ history = <<>>
  /\ nodes = <<>>
  /\ edges = <<>>
  /\ call = [op |-> "none"]

GetSimilarFraudCases ==
  /\ Idle
  /\ \E fraud_indicators \in ListsUpTo(MaxIndicators) :
       call' = [op |-> "get_similar_fraud_cases", fraud_indicators |-> fraud_indicators,
                result |-> get_similar_fraud_cases(fraud_indicators)]
  /\ UNCHANGED <<business_data, xgboost_model, trained, history, nodes, edges>>

CasesNext == GetSimilarFraudCases

CasesSpec == CasesInit /\ [][CasesNext]_vars

----------------------------------------------------------------------------
(* Incomplete profiles: run_all_fraud_checks and analyze_business on a    *)
(* profile that may lack required keys                                     *)

(* the keys analyze_business subscripts (lines 432-439, 471-493, 504-512) *)
RequiredKeys ==
  {"business_type", "num_outlets", "total_land_sqft", "region", "land_rate_per_sqft",
   "electricity_consumption_kwh", "declared_revenue", "declared_tax_paid", "num_employees"}

BaseProfiles ==
  {ScenarioA, ScenarioB,
   Profile("Tea Stall", 1, 100, "Street/Footpath Location", 300, 0, 6000000, 0, 2, "None", 5)}

(* a base profile whole, without one required key, or without two *)
IncompleteProfiles ==
  BaseProfiles
    \cup {Without(p, {k}) : p \in BaseProfiles, k \in RequiredKeys}
    \cup {Without(p, drop) : p \in BaseProfiles,
                             drop \in {{"declared_revenue", "declared_tax_paid"},
                                       {"num_employees", "region"}}}

IncompleteInit ==
  /\ business_data \in IncompleteProfiles
  /\ xgboost_model \in BOOLEAN
  /\ trained = <<>>
  /\ history = <<>>
  /\ nodes = <<>>
  /\ edges = <<>>
  /\ call = [op |-> "none"]

(* run_all_fraud_checks called on the profile: it returns the checks, or  *)
(* the KeyError of the first detector that raises leaves it               *)
RunAllFraudChecks ==
  /\ Idle
  /\ \E aux \in AuxInputs :
       call' = IF run_all_fraud_checks_raises(business_data, aux[2]).exception # "none"
               THEN [op |-> "run_all_fraud_checks",
                     lifestyle_data |-> aux[1],
                     transaction_data |-> aux[2],
                     network_data |-> aux[3],
                     raised |-> run_all_fraud_checks_raises(business_data, aux[2])]
               ELSE [op |-> "run_all_fraud_checks",
                     lifestyle_data |-> aux[1],
                     transaction_data |-> aux[2],
                     network_data |-> aux[3],
                     result |-> run_all_fraud_checks(business_data, aux[1], aux[2], aux[3])]
  /\ UNCHANGED <<business_data, xgboost_model, trained, history, nodes, edges>>

IncompleteNext ==
  \/ RunAllFraudChecks
  \/ AnalyzeBusiness

IncompleteSpec == IncompleteInit /\ [][IncompleteNext]_vars

----------------------------------------------------------------------------
(* Repeated scoring: one constructed engine answers several calls *)

MaxCalls == 3

(* lines 517-530: scaler.transform, decision_function and predict_proba   *)
(* read the fitted scaler and models, and analyze_business assigns no      *)
(* attribute of self: the fitted state after a call is the one before      *)
TrainedAfterScoring_refit(fitted) == [fitted EXCEPT !.rf_proba = 100 - fitted.rf_proba]

TrainedAfterScoring(fitted) == fitted

(* __init__ has fitted the models (lines 29-75) before the first call *)
RepeatInit ==
  /\ business_data \in BaseProfiles
  /\ xgboost_model \in BOOLEAN
  /\ trained \in MlOutputs(xgboost_model)
  /\ history = <<>>
  /\ nodes = <<>>
  /\ edges = <<>>
  /\ call = [op |-> "none"]

(* analyze_business on an engine that may have answered calls before *)
AnalyzeBusinessAgain ==
  /\ Len(history) < MaxCalls
  /\ AnalyzeBusinessCall({trained}, history)
  /\ history' = Append(history,
                       [lifestyle_data |-> call'.lifestyle_data,
                        transaction_data |-> call'.transaction_data,
                        network_data |-> call'.network_data,
                        trained |-> trained,
                        exact |-> call'.locals.fraud_probability,
                        fraud_probability |-> call'.result.fraud_probability])
  /\ trained' = TrainedAfterScoring(trained)
  /\ UNCHANGED <<business_data, xgboost_model, nodes, edges>>

RepeatNext == AnalyzeBusinessAgain

RepeatSpec == RepeatInit /\ [][RepeatNext]_vars

----------------------------------------------------------------------------
(* Revenue sweep: run_all_fraud_checks on one profile at several declared *)
(* revenues, every other field held fixed                                  *)

MaxSweep == 2

SweepProfiles ==
  {Profile(t, 1, 1000, "Tier-2 City - Prime", rate, 6000, 0, tax, 5, tycoon, years) :
     t \in {"Small Shop", "Service Provider", "Import/Export Trading"},
     rate \in {1900, 9000},
     tax \in {0, 300000},
     tycoon \in {"None", "Close Business Partner"},
     years \in {2, 5}}

(* twice the revenue the detectors expect of the profile (lines 172, 204, 239) *)
ExpectedRev2(bd) ==
  bd.total_land_sqft * Mean2(get_benchmarks_for_type(bd.business_type).revenue_per_sqft)

(* revenues at and just above 1.5, 2, 3, 4 and 5 times the expected one,  *)
(* and around the other revenue tests of the detectors                     *)
SweepRevenues(bd) ==
  {(q * ExpectedRev2(bd)) \div 4 + d : q \in {3, 4, 6, 8, 10}, d \in {0, 1}}
    \cup {0, 4000000, 6000000, 50000000, 50000001}

SweepInit ==
  /\ business_data \in SweepProfiles
  /\ xgboost_model \in BOOLEAN
  /\ trained = <<>>
  /\ history = <<>>
  /\ nodes = <<>>
  /\ edges = <<>>
  /\ call = [op |-> "none"]

(* the caller sets the declared revenue and runs the checks *)
RunAllFraudChecksAtRevenue ==
  /\ Len(history) < MaxSweep
  /\ \E declared_revenue \in SweepRevenues(business_data) :
     \E bd \in {[business_data EXCEPT !.declared_revenue = declared_revenue]} :
     \E checks \in {run_all_fraud_checks(bd, NoArg, NoArg, NoArg)} :
       /\ business_data' = bd
       /\ call' = [op |-> "run_all_fraud_checks",
                   lifestyle_data |-> NoArg,
                   transaction_data |-> NoArg,
                   network_data |-> NoArg,
                   result |-> checks]
       /\ history' = Append(history, [declared_revenue |-> declared_revenue,
                                      checks |-> checks])
  /\ UNCHANGED <<xgboost_model, trained, nodes, edges>>

SweepNext == RunAllFraudChecksAtRevenue

SweepSpec == SweepInit /\ [][SweepNext]_vars

----------------------------------------------------------------------------
(* Divisions.  _extract_features (fraud_detection.py 77-128) and line 211 *)
(* divide by max(x, floor).  A division by zero is a failure value here:   *)
(* ZeroDivisionError on Python numbers, inf or nan on numpy ones.          *)

DivisionByZero == [error |-> "division by zero"]

(* max(x, floor) with the guard dropped *)
AtLeast_unguarded(x, floor) == x

(* max(x, floor) *)
AtLeast(x, floor) == IF x >= floor THEN x ELSE floor

(* n / d for integers n and d >= 0 *)
Quotient(n, d) == IF d = 0 THEN DivisionByZero ELSE Frac(n, d)

(* x / (p / q) for a quotient x and integers p >= 0, q > 0 *)
QuotientBy(x, p, q) ==
  IF x = DivisionByZero \/ p = 0 THEN DivisionByZero ELSE Frac(x.n * q, x.d * p)

(* lines 503-516: the one row analyze_business hands to _extract_features *)
InputRow(bd) ==
  [business_type |-> bd.business_type,
   num_outlets |-> bd.num_outlets,
   total_land_sqft |-> bd.total_land_sqft,
   region |-> bd.region,
   land_rate_per_sqft |-> bd.land_rate_per_sqft,
   electricity_consumption_kwh |-> bd.electricity_consumption_kwh,
   declared_revenue |-> bd.declared_revenue,
   declared_tax_paid |-> bd.declared_tax_paid,
   num_employees |-> bd.num_employees,
   is_stock_listed |-> Get(bd, "is_stock_listed", FALSE),
   tycoon_connection_level |-> Get(bd, "tycoon_connection_level", "None"),
   years_in_operation |-> Get(bd, "years_in_operation", 5)]

(* lines 102-108, in quarters *)
TycoonScore4(level) ==
  CASE level = "None" -> 0
    [] level = "Distant/Indirect" -> 1
    [] level = "Business Associate" -> 2
    [] level = "Close Business Partner" -> 3
    [] level = "Family/Direct Relationship" -> 4
    [] OTHER -> 0

(* lines 95 and 211: declared_tax_paid / max(declared_revenue, 1) *)
EffectiveTaxRate(row) ==
  Quotient(row.declared_tax_paid, AtLeast(row.declared_revenue, 1))

(* lines 80-126: the eleven features of one row.  A midpoint np.mean(r) is *)
(* held doubled (Mean2), so max(mid, 1) is AtLeast(2 * mid, 2) / 2; the    *)
(* expected tax rates are in percent, so max(mid, 0.01) is                 *)
(* AtLeast(Mean2, 2) / 200.                                                *)
extract_features(row) ==
  LET benchmarks == get_benchmarks_for_type(row.business_type)
      land_rate_range == get_land_rate_range(row.region)
  IN << Quotient(2 * row.electricity_consumption_kwh,
                 AtLeast(row.total_land_sqft * Mean2(benchmarks.electricity_kwh_per_sqft), 2)),
        Quotient(2 * row.declared_revenue,
                 AtLeast(row.total_land_sqft * Mean2(benchmarks.revenue_per_sqft), 2)),
        Quotient(2 * row.num_employees,
                 AtLeast(row.num_outlets * Mean2(benchmarks.employees_per_outlet), 2)),
        QuotientBy(EffectiveTaxRate(row), AtLeast(Mean2(benchmarks.expected_tax_rate), 2), 200),
        Quotient(row.land_rate_per_sqft - land_rate_range[1],
                 AtLeast(land_rate_range[2] - land_rate_range[1], 1)),
        Frac(TycoonScore4(row.tycoon_connection_level), 4),
        QuotientBy(Quotient(row.declared_revenue, AtLeast(row.num_employees, 1)), 100000, 1),
        QuotientBy(Quotient(row.declared_revenue, AtLeast(row.num_outlets, 1)), 1000000, 1),
        QuotientBy(Quotient(row.total_land_sqft, AtLeast(row.num_outlets, 1)), 10000, 1),
        Whole(IF row.is_stock_listed THEN 1 ELSE 0),
        Frac(row.years_in_operation, 30) >>

(* profiles with zero revenue, employees, area, electricity and tax, a    *)
(* category whose electricity and revenue benchmarks are (0, 0), and a     *)
(* region whose land rates start at 0                                      *)
MaxZeroOutlets == 2

ZeroProfiles ==
  {Profile(t, o, sqft, "Street/Footpath Location", rate, elec, rev, tax, emp, "None", 5) :
     t \in {"Small Shop", "Small Hawker/Peddler", "Tea Stall"},
     o \in 1..MaxZeroOutlets,
     sqft \in {0, 100},
     rate \in {0, 300},
     elec \in {0, 500},
     rev \in {0, 500000},
     tax \in {0, 1000},
     emp \in {0, 2}}

ZeroInit ==
  /\ business_data \in ZeroProfiles
  /\ xgboost_model \in BOOLEAN
  /\ trained = <<>>
  /\ history = <<>>
  /\ nodes = <<>>
  /\ edges = <<>>
  /\ call = [op |-> "none"]

(* _extract_features on the row of the profile *)
ExtractFeatures ==
  /\ Idle
  /\ call' = [op |-> "_extract_features",
              result |-> extract_features(InputRow(business_data)),
              tax_rate |-> EffectiveTaxRate(business_data)]
  /\ UNCHANGED <<business_data, xgboost_model, trained, history, nodes, edges>>

ZeroNext ==
  \/ ExtractFeatures
  \/ DetectShellCompany
  \/ DetectMoneyLaundering
  \/ DetectBlackMoney
  \/ DetectCircularTrading
  \/ DetectBenamiProperty
  \/ DetectFrontOperation
  \/ DetectCashLayering
  \/ DetectVendorNetworkFraud
  \/ AnalyzeBusiness

ZeroSpec == ZeroInit /\ [][ZeroNext]_vars

----------------------------------------------------------------------------
(* Properties *)

Analyzed == call.op = "analyze_business"

RangeAnomalyNames == {"electricity_anomaly", "revenue_anomaly", "employee_anomaly"}

(* the value anomaly_scores holds under `name`, as a set (empty when absent) *)
AnomalyOf(scores, name) == {scores[i][2] : i \in {j \in 1..Len(scores) : scores[j][1] = name}}

(* the level the thresholds 80/60/40/25 give the value n/d, lower bounds inclusive *)
ThresholdLevel(p) ==
  IF p.n >= 80 * p.d THEN "CRITICAL"
  ELSE IF p.n >= 60 * p.d THEN "VERY HIGH"
  ELSE IF p.n >= 40 * p.d THEN "HIGH"
  ELSE IF p.n >= 25 * p.d THEN "MODERATE"
  ELSE "LOW"

LevelRank(level) ==
  CASE level = "LOW" -> 0 [] level = "MODERATE" -> 1 [] level = "HIGH" -> 2
  [] level = "VERY HIGH" -> 3 [] level = "CRITICAL" -> 4

ProbabilityGrid == {Frac(k, 10) : k \in {0, 1, 249, 250, 251, 399, 400, 599, 600, 799, 800,
                                          801, 1000}}

(* C1: the risk level of a scoring call is the level the thresholds        *)
(* (>= 80 CRITICAL, >= 60 VERY HIGH, >= 40 HIGH, >= 25 MODERATE, else LOW) *)
(* give the call's fraud probability; 80.0 is CRITICAL, 79.9 VERY HIGH,    *)
(* 25.0 MODERATE, 24.9 LOW; and the level never decreases as the           *)
(* probability increases.                                                  *)
C1_RiskLevelByThreshold ==
  /\ RiskLevel(Whole(80)) = "CRITICAL"
  /\ RiskLevel(Frac(799, 10)) = "VERY HIGH"
  /\ RiskLevel(Whole(25)) = "MODERATE"
  /\ RiskLevel(Frac(249, 10)) = "LOW"
  /\ Analyzed =>
       LET p == call.locals.fraud_probability
           level == call.result.risk_level
       IN /\ level = ThresholdLevel(p)
          /\ \A q \in ProbabilityGrid :
               /\ RLeq(q, p) => LevelRank(RiskLevel(q)) <= LevelRank(level)
               /\ RLeq(p, q) => LevelRank(level) <= LevelRank(RiskLevel(q))

C1_Witness ==
  /\ Analyzed
  /\ call.locals.fraud_probability = Whole(80)
  /\ call.result.risk_level = "CRITICAL"

(* C2: in every result of analyze_business the reported risk_level is the  *)
(* level the thresholds give the reported one-decimal fraud_probability,   *)
(* and the recommendation is the fixed string of that level.               *)
C2_ReportedLevelMatchesReportedProbability ==
  Analyzed =>
    /\ call.result.risk_level = ThresholdLevel(call.result.fraud_probability)
    /\ call.result.recommendation = Recommendations(ThresholdLevel(call.result.fraud_probability))

(* C3: fraud_probability = 0.40*ensemble + 0.35*pattern_avg +              *)
(* 0.25*anomaly_avg clamped to [0,100], pattern_avg the mean score of the  *)
(* matched patterns (0 if none), anomaly_avg the mean of the values of the *)
(* result's anomaly_scores; the probability lies in [0,100], and so does   *)
(* the reported value, its rounding to one decimal.                        *)
C3_FraudProbabilityFormula ==
  Analyzed =>
    LET r == call.result
        pats == r.matched_fraud_patterns
        anoms == r.anomaly_scores
        ensemble == r.ml_scores_detail.ensemble_score
        pattern_avg == IF Len(pats) = 0 THEN Whole(0)
                       ELSE Frac(SumSeq([i \in 1..Len(pats) |-> pats[i].score]), Len(pats))
        anomaly_sum == RSum([i \in 1..Len(anoms) |-> anoms[i][2]])
        anomaly_avg == IF Len(anoms) = 0 THEN Whole(0)
                       ELSE Frac(anomaly_sum.n, anomaly_sum.d * Len(anoms))
        weighted == RAdd(RAdd(Frac(2 * ensemble.n, 5 * ensemble.d),
                              Frac(7 * pattern_avg.n, 20 * pattern_avg.d)),
                         Frac(anomaly_avg.n, 4 * anomaly_avg.d))
        clamped == IF weighted.n < 0 THEN Whole(0)
                   ELSE IF weighted.n > 100 * weighted.d THEN Whole(100) ELSE weighted
        p == call.locals.fraud_probability
    IN /\ p = clamped
       /\ 0 <= p.n /\ p.n <= 100 * p.d
       /\ r.fraud_probability \in Round1(p)
       /\ 0 <= r.fraud_probability.n /\ r.fraud_probability.n <= 100 * r.fraud_probability.d

C3_Witness ==
  /\ Analyzed
  /\ Len(call.result.matched_fraud_patterns) >= 2
  /\ Len(call.result.anomaly_scores) >= 3
  /\ call.result.ml_scores_detail.ensemble_score.n > 0
  /\ call.locals.fraud_probability.d > 1

(* C4: when none of the three range checks raises an anomaly, anomaly_avg  *)
(* is 0 and the fraud probability is exactly 0.40*ensemble +               *)
(* 0.35*pattern_avg, whatever the scores of the detectors that did not     *)
(* match.                                                                  *)
C4_NoRangeAnomalyNoAnomalyTerm ==
  (Analyzed /\ \A i \in 1..Len(call.result.anomaly_scores) :
                 call.result.anomaly_scores[i][1] \notin RangeAnomalyNames) =>
    /\ call.locals.anomaly_avg = Whole(0)
    /\ call.locals.fraud_probability =
         RAdd(RScale(call.locals.ml_ensemble, 40, 100),
              RScale(call.locals.pattern_score, 35, 100))

(* the points of the condition that appends the indicator `text` *)
IndicatorPoints(text) ==
  CASE text = "Extremely low electricity consumption - possible ghost office" -> 30
  [] text = "Minimal employee count - paper company indicator" -> 25
  [] text = "High revenue with low operational footprint" -> 35
  [] text = "New company with unusually high revenue" -> 20
  [] text = "Revenue significantly exceeds business capacity - possible money integration" -> 30
  [] text = "Cash-intensive business with unusually high revenue" -> 25
  [] text = "High-risk connections with inflated revenue" -> 30
  [] text = "Significantly under-reported revenue - likely cash hoarding" -> 35
  [] text = "Extremely low effective tax rate" -> 25
  [] text = "Asset value far exceeds declared income capacity" -> 30
  [] text = "Severely undervalued land - possible benami property" -> 25
  [] text = "Revenue massively exceeds operational capacity - possible fake invoices" -> 35
  [] text = "Trading business with inflated transactions" -> 30
  [] text = "New entity with massive transaction volume" -> 25
  [] text = "Property value grossly disproportionate to income" -> 35
  [] text = "Land significantly undervalued vs market rates" -> 30
  [] text = "High-risk political/tycoon connections with property" -> 25
  [] text = "Revenue ({actual_rev}) far exceeds expected for vendor type" -> 35
  [] text = "Luxury vehicle ({vehicle}) inconsistent with small vendor income" -> 25
  [] text = "Premium property ownership inconsistent with vendor income" -> 25
  [] text = "High-cost education for children inconsistent with vendor income" -> 15
  [] text = "Multiple bank accounts unusual for small vendor" -> 20
  [] text = "High UPI transaction volume unusual for vendor type" -> 20
  [] text = "Cash deposits ({cash_deposits}) exceed 50% of declared revenue" -> 30
  [] text = "{threshold_txns} transactions just below 50,000 threshold - structuring suspected" -> 35
  [] text = "High proportion of round figure transactions" -> 20
  [] text = "Connections to high-value businesses - potential layering point" -> 25
  [] text = "Connected to {connected_vendors} other vendors - potential network" -> 25
  [] text = "Multiple vendors with common supplier - circular arrangement possible" -> 30
  [] text = "{shared_address} entities at same address - shell network indicator" -> 35
  [] text = "{family_connections} family-connected businesses - benami network possible" -> 25

DetectorOps == {"detect_shell_company", "detect_money_laundering", "detect_black_money",
                "detect_circular_trading", "detect_benami_property",
                "detect_front_operation", "detect_cash_layering",
                "detect_vendor_network_fraud"}

(* every detector result the last call produced *)
DetectorResults ==
  IF Analyzed
  THEN {call.result.all_fraud_checks[i][2] : i \in 1..Len(call.result.all_fraud_checks)}
  ELSE IF call.op \in DetectorOps THEN {call.result} ELSE {}

ResultScore(r) == r[CHOOSE k \in DOMAIN r : k \in SCORE_KEYS]

ResultFlag(r) == r[CHOOSE k \in DOMAIN r : k \notin SCORE_KEYS \cup {"indicators", "fraud_type"}]

IndicatorTotal(r) == SumSeq([i \in 1..Len(r.indicators) |-> IndicatorPoints(r.indicators[i].text)])

(* C5: for each of the eight detectors the returned score is min(100, sum  *)
(* of the points of the triggered conditions), within [0,100]; there is    *)
(* one indicator per triggered condition; the is_likely flag is true iff   *)
(* the score is >= 50; and analyze_business lists a detector it ran in     *)
(* matched_fraud_patterns iff that detector's flag is true.                *)
C5_DetectorScoreFlagAndMatch ==
  /\ \A r \in DetectorResults :
       /\ ResultScore(r) = Min(100, IndicatorTotal(r))
       /\ ResultScore(r) \in 0..100
       /\ ResultFlag(r) <=> ResultScore(r) >= 50
       /\ \A i, j \in 1..Len(r.indicators) :
            r.indicators[i].text = r.indicators[j].text => i = j
  /\ Analyzed =>
       LET checks == call.result.all_fraud_checks
           pats == call.result.matched_fraud_patterns
           flagged == {i \in 1..Len(checks) : ResultFlag(checks[i][2])}
       IN /\ Len(pats) = Cardinality(flagged)
          /\ Len(checks) = IF business_data.business_type \in SMALL_VENDOR_TYPES THEN 8 ELSE 5
          /\ \A i \in 1..Len(checks) :
               (i \in flagged) <=>
                 \E k \in 1..Len(pats) :
                   /\ pats[k].type = Title(checks[i][1])
                   /\ pats[k].score = ResultScore(checks[i][2])
                   /\ pats[k].indicators = checks[i][2].indicators

C5_Witness ==
  /\ Analyzed
  /\ \E r \in DetectorResults : IndicatorTotal(r) > 100 /\ ResultScore(r) = 100
  /\ \E r \in DetectorResults : ResultScore(r) \in 1..49
  /\ Len(call.result.all_fraud_checks) = 8
  /\ Len(call.result.matched_fraud_patterns) >= 2

VendorOnlyOps == {"detect_front_operation", "detect_cash_layering",
                  "detect_vendor_network_fraud"}

(* C6: each of the three vendor-only detectors returns score 0, no         *)
(* indicators and a false flag whenever business_type is not a             *)
(* micro-vendor category, whatever auxiliary data is supplied.             *)
C6_VendorOnlyDetectorsNoOpForOthers ==
  (call.op \in VendorOnlyOps /\ business_data.business_type \notin SMALL_VENDOR_TYPES) =>
    /\ ResultScore(call.result) = 0
    /\ call.result.indicators = <<>>
    /\ ~ResultFlag(call.result)

(* C7 as stated: for every vendor profile, each of the three vendor-only   *)
(* detectors called without its auxiliary input returns score 0 with no    *)
(* indicators.                                                             *)
C7_AbsentInputScoresZero ==
  (call.op \in VendorOnlyOps /\ business_data.business_type \in SMALL_VENDOR_TYPES
     /\ call.aux = NoArg) =>
    /\ ResultScore(call.result) = 0
    /\ call.result.indicators = <<>>

(* C7 amended: without its auxiliary input a vendor-only detector scores   *)
(* only the conditions that read the profile.  detect_vendor_network_fraud *)
(* returns 0 with no indicators; detect_cash_layering returns 25 with one  *)
(* indicator when connected_to_high_value is set and 0 otherwise, and      *)
(* never matches; detect_front_operation returns 35 for revenue above      *)
(* twice the category's annual ceiling plus 20 for more than 3 bank        *)
(* accounts plus 20 for UPI volume above 1,000,000, one indicator each.    *)
C7_AbsentInputLeavesProfileConditions ==
  (call.op \in VendorOnlyOps /\ business_data.business_type \in SMALL_VENDOR_TYPES
     /\ call.aux = NoArg) =>
    LET r == call.result
        bd == business_data
        ceiling == BUSINESS_BENCHMARKS(bd.business_type).daily_revenue_range[2] * 300
        rev_pts == IF bd.declared_revenue > 2 * ceiling THEN 35 ELSE 0
        bank_pts == IF Get(bd, "num_bank_accounts", 1) > 3 THEN 20 ELSE 0
        upi_pts == IF Get(bd, "upi_transaction_volume", 0) > 1000000 THEN 20 ELSE 0
        link_pts == IF Get(bd, "connected_to_high_value", FALSE) THEN 25 ELSE 0
    IN CASE call.op = "detect_vendor_network_fraud" ->
              r.network_score = 0 /\ r.indicators = <<>> /\ ~r.is_likely_network_fraud
       [] call.op = "detect_cash_layering" ->
              /\ r.layering_score = link_pts
              /\ Len(r.indicators) = link_pts \div 25
              /\ ~r.is_likely_layering
       [] call.op = "detect_front_operation" ->
              /\ r.front_score = rev_pts + bank_pts + upi_pts
              /\ Len(r.indicators) = rev_pts \div 35 + bank_pts \div 20 + upi_pts \div 20
              /\ r.is_likely_front <=> r.front_score >= 50

C7_Witness ==
  /\ call.op = "detect_front_operation"
  /\ business_data.business_type \in SMALL_VENDOR_TYPES
  /\ call.aux = NoArg
  /\ call.result.front_score = 75
  /\ Len(call.result.indicators) = 3

(* the risk factor named `factor` of a result, as a set *)
FactorsNamed(r, factor) ==
  {r.risk_factors[i] : i \in {j \in 1..Len(r.risk_factors) : r.risk_factors[j].factor = factor}}

(* one range check as C8 states it: raised iff the value is below 50% of   *)
(* the lower bound or above 200% of the upper bound, with score            *)
(* min(100, |actual - midpoint| / max(midpoint, 1) * 50) and severity      *)
(* MEDIUM below 50, HIGH from 50                                           *)
RangeCheckAsStated(r, name, factor, actual, range) ==
  LET raised == AnomalyOf(r.anomaly_scores, name)
      below == RLess(Whole(actual), Frac(range[1], 2))
      above == actual > 2 * range[2]
      midpoint == Frac(range[1] + range[2], 2)
      deviation == IF RLess(Whole(actual), midpoint)
                   THEN RAdd(midpoint, Whole(-actual)) ELSE RAdd(Whole(actual), Frac(-midpoint.n, midpoint.d))
      base == RMax(midpoint, Whole(1))
      ratio == Frac(deviation.n * base.d, deviation.d * base.n)
      score == IF RLeq(Whole(2), ratio) THEN Whole(100) ELSE RScale(ratio, 50, 1)
  IN /\ (raised # {}) <=> (below \/ above)
     /\ raised # {} =>
          /\ raised = {score}
          /\ \E f \in FactorsNamed(r, factor) :
               /\ f.score = score
               /\ f.severity = IF RLess(score, Whole(50)) THEN "MEDIUM" ELSE "HIGH"
     /\ raised = {} => FactorsNamed(r, factor) = {}

RangeChecksAsStated(names) ==
  LET expected == calculate_expected_metrics(business_data.business_type,
                                             business_data.num_outlets,
                                             business_data.total_land_sqft)
      r == call.result
  IN /\ "electricity" \in names =>
          RangeCheckAsStated(r, "electricity_anomaly", "Electricity Consumption Anomaly",
                             business_data.electricity_consumption_kwh,
                             expected.electricity_range)
     /\ "revenue" \in names =>
          RangeCheckAsStated(r, "revenue_anomaly", "Revenue Anomaly",
                             business_data.declared_revenue, expected.revenue_range)
     /\ "employee" \in names =>
          RangeCheckAsStated(r, "employee_anomaly", "Employee Count Anomaly",
                             business_data.num_employees, expected.employees_range)

(* C8: for each of electricity, revenue and employee count the anomaly is  *)
(* raised iff the value is out of range, its score is                      *)
(* min(100, |actual - midpoint| / max(midpoint, 1) * 50), and its risk     *)
(* factor is MEDIUM when the score is below 50 and HIGH from 50.           *)
C8_RangeChecksAsStated ==
  Analyzed => RangeChecksAsStated({"electricity", "revenue", "employee"})

(* the part of C8 that holds of the code: electricity and revenue *)
C8_ElectricityAndRevenueAsStated ==
  Analyzed => RangeChecksAsStated({"electricity", "revenue"})

(* the shell-company result of the last call, as a set *)
ShellResults == {r \in DetectorResults : r.fraud_type = "shell_company"}

IsScenarioBFootprint(bd) ==
  /\ bd.business_type = "Small Shop" /\ bd.total_land_sqft = 1000
  /\ bd.electricity_consumption_kwh = 200 /\ bd.num_employees = 1
  /\ bd.declared_revenue = 15000000 /\ Get(bd, "years_in_operation", 5) = 1

(* C9: detect_shell_company adds 30 when electricity < 20% of expected, 25 *)
(* when employees < max(10% of expected, 3), 35 when revenue > 3x expected *)
(* and electricity < 30% of expected, 20 when years in operation <= 2 and  *)
(* revenue > 10,000,000; on the scenario-B profile it matches with score   *)
(* >= 50 and lists the ghost-office and paper-company indicators.          *)
C9_ShellCompanyConditions ==
  \A r \in ShellResults :
    LET bd == business_data
        benchmarks == get_benchmarks_for_type(bd.business_type)
        expected_elec == Frac(bd.total_land_sqft * (benchmarks.electricity_kwh_per_sqft[1]
                                                    + benchmarks.electricity_kwh_per_sqft[2]), 2)
        expected_emp == Frac(bd.num_outlets * (benchmarks.employees_per_outlet[1]
                                               + benchmarks.employees_per_outlet[2]), 2)
        expected_rev == Frac(bd.total_land_sqft * (benchmarks.revenue_per_sqft[1]
                                                   + benchmarks.revenue_per_sqft[2]), 2)
        elec == Whole(bd.electricity_consumption_kwh)
        ghost == RLess(elec, RScale(expected_elec, 20, 100))
        paper == RLess(Whole(bd.num_employees), RMax(RScale(expected_emp, 10, 100), Whole(3)))
        hollow == /\ RLess(RScale(expected_rev, 3, 1), Whole(bd.declared_revenue))
                  /\ RLess(elec, RScale(expected_elec, 30, 100))
        young == Get(bd, "years_in_operation", 5) <= 2 /\ bd.declared_revenue > 10000000
        total == (IF ghost THEN 30 ELSE 0) + (IF paper THEN 25 ELSE 0)
                 + (IF hollow THEN 35 ELSE 0) + (IF young THEN 20 ELSE 0)
        texts == {r.indicators[i].text : i \in 1..Len(r.indicators)}
    IN /\ r.shell_score = Min(100, total)
       /\ r.is_likely_shell <=> total >= 50
       /\ ghost <=> "Extremely low electricity consumption - possible ghost office" \in texts
       /\ paper <=> "Minimal employee count - paper company indicator" \in texts
       /\ hollow <=> "High revenue with low operational footprint" \in texts
       /\ young <=> "New company with unusually high revenue" \in texts
       /\ IsScenarioBFootprint(bd) =>
            /\ r.is_likely_shell /\ r.shell_score >= 50
            /\ ghost /\ paper

C9_Witness ==
  /\ call.op = "detect_shell_company"
  /\ business_data = ScenarioB
  /\ call.result.is_likely_shell
  /\ call.result.shell_score = 100
  /\ Len(call.result.indicators) = 4

(* declared electricity and revenue both inside the ranges the range checks use *)
InExpectedRanges(bd) ==
  LET expected == calculate_expected_metrics(bd.business_type, bd.num_outlets,
                                             bd.total_land_sqft)
  IN /\ expected.electricity_range[1] <= bd.electricity_consumption_kwh
     /\ bd.electricity_consumption_kwh <= expected.electricity_range[2]
     /\ expected.revenue_range[1] <= bd.declared_revenue
     /\ bd.declared_revenue <= expected.revenue_range[2]

ShellOrLaunderingResults ==
  {r \in DetectorResults : r.fraud_type \in {"shell_company", "money_laundering"}}

(* C11: for every business category, a profile whose declared electricity  *)
(* and declared revenue both lie within the expected ranges of             *)
(* calculate_expected_metrics matches neither the shell-company nor the    *)
(* money-laundering pattern.                                               *)
C11_InRangeNoShellNoLaundering ==
  InExpectedRanges(business_data) =>
    \A r \in ShellOrLaunderingResults : ~ResultFlag(r)

(* the part of C11 that holds of the code: the categories that are not     *)
(* micro-vendor categories                                                 *)
C11_InRangeNoShellNoLaunderingNonVendor ==
  (InExpectedRanges(business_data) /\ business_data.business_type \notin SMALL_VENDOR_TYPES) =>
    \A r \in ShellOrLaunderingResults : ~ResultFlag(r)

NetworkAnalyzed == call.op = "analyze_network"

(* every id the graph mentions: the added entities and the edge endpoints *)
GraphIds == DOMAIN nodes \cup {edges[i].from : i \in 1..Len(edges)}
                         \cup {edges[i].to : i \in 1..Len(edges)}

(* undirected degree: the edge endpoints the entity occupies *)
Degree(id) ==
  Cardinality({i \in 1..Len(edges) : edges[i].from = id})
  + Cardinality({i \in 1..Len(edges) : edges[i].to = id})

(* the risk score of an added entity; an id that was never added has none *)
RiskOf(id) == IF id \in DOMAIN nodes THEN nodes[id].risk_score ELSE 0

TypeOf(id) == IF id \in DOMAIN nodes THEN nodes[id].type ELSE "None"

ReportedHubs ==
  {call.result.high_risk_clusters[i].hub : i \in 1..Len(call.result.high_risk_clusters)}

(* C12: analyze_network reports an entity as a high-risk cluster iff its   *)
(* undirected degree is > 3 and its risk score is > 50 (with exactly 4     *)
(* edges, risk 51 is reported and risk 50 is not), once each; whenever at  *)
(* least one such entity exists the network risk score is at least 15.     *)
C12_HighRiskClusterIffHubAndRisk ==
  NetworkAnalyzed =>
    /\ \A id \in GraphIds : id \in ReportedHubs <=> (Degree(id) > 3 /\ RiskOf(id) > 50)
    /\ ReportedHubs \subseteq GraphIds
    /\ Cardinality(ReportedHubs) = Len(call.result.high_risk_clusters)
    /\ \A i \in 1..Len(call.result.high_risk_clusters) :
         LET c == call.result.high_risk_clusters[i]
         IN c.connection_count = Degree(c.hub) /\ c.risk_score = RiskOf(c.hub)
    /\ ReportedHubs # {} => call.result.network_risk_score >= 15

C12_Witness ==
  /\ NetworkAnalyzed
  /\ Degree("vendor") = 4 /\ RiskOf("vendor") = 51 /\ "vendor" \in ReportedHubs
  /\ Degree("person") = 3 /\ "person" \notin ReportedHubs
  /\ call.result.network_risk_score >= 15

FlowEdges ==
  {i \in 1..Len(edges) : /\ edges[i].type = "financial"
                          /\ TypeOf(edges[i].from) = "small_vendor"
                          /\ TypeOf(edges[i].to) = "high_value_business"}

KinEdges ==
  {i \in 1..Len(edges) : /\ edges[i].type = "family"
                          /\ (RiskOf(edges[i].from) > 60 \/ RiskOf(edges[i].to) > 60)}

AddressEdges == {i \in 1..Len(edges) : edges[i].type = "common_address"}

RiskyHubs == {id \in GraphIds : Degree(id) > 3 /\ RiskOf(id) > 50}

RawNetworkRisk ==
  15 * Cardinality(RiskyHubs) + 20 * Cardinality(FlowEdges)
  + 10 * Cardinality(KinEdges) + 8 * Cardinality(AddressEdges)

(* the flagged edges in edge order, as <<from, to>> pairs *)
RECURSIVE EdgesAt(_, _)
EdgesAt(indexes, i) ==
  IF i > Len(edges) THEN <<>>
  ELSE (IF i \in indexes THEN << <<edges[i].from, edges[i].to>> >> ELSE <<>>)
       \o EdgesAt(indexes, i + 1)

(* C13: network_risk_score = min(100, 15*H + 20*F + 10*M + 8*A) with H the *)
(* hubs of risk > 50, F the financial edges from a small_vendor to a       *)
(* high_value_business, M the family edges with an endpoint of risk > 60   *)
(* and A the common_address edges; suspicious_connections has exactly      *)
(* F + M + A entries, one per flagged edge.                                *)
C13_NetworkRiskScoreFormula ==
  NetworkAnalyzed =>
    LET s == call.result.suspicious_connections
    IN /\ call.result.network_risk_score = Min(100, RawNetworkRisk)
       /\ Len(s) = Cardinality(FlowEdges) + Cardinality(KinEdges) + Cardinality(AddressEdges)
       /\ [i \in 1..Len(s) |-> <<s[i].from, s[i].to>>]
            = EdgesAt(FlowEdges \cup KinEdges \cup AddressEdges, 1)

C13_Witness ==
  /\ NetworkAnalyzed
  /\ RawNetworkRisk > 100
  /\ call.result.network_risk_score = 100
  /\ RiskyHubs # {} /\ FlowEdges # {}

Neighbours(ids) ==
  ids \cup {edges[i].to : i \in {j \in 1..Len(edges) : edges[j].from \in ids}}
      \cup {edges[i].from : i \in {j \in 1..Len(edges) : edges[j].to \in ids}}

(* the ids within k hops of `ids`, edges walked in either direction *)
RECURSIVE Within(_, _)
Within(ids, k) == IF k = 0 THEN ids ELSE Within(Neighbours(ids), k - 1)

(* shortest hop distance from `from_id` to an id within MaxEdges hops *)
HopDistance(from_id, id) ==
  CHOOSE k \in 0..Len(edges) :
    /\ id \in Within({from_id}, k)
    /\ \A j \in 0..(k - 1) : id \notin Within({from_id}, j)

Searched == call.op = "find_connected_entities"

ReturnedIds == {call.result[i].entity_id : i \in 1..Len(call.result)}

(* C14: find_connected_entities(e, d) returns every entity other than e    *)
(* reachable from e by a path of at most d edges walked in either          *)
(* direction, for every graph including graphs with cycles.                *)
C14_ReturnsAllWithinDepth ==
  Searched =>
    ReturnedIds = Within({call.entity_id}, call.max_depth) \ {call.entity_id}

(* the part of C14 that holds of the code: nothing else is returned, and   *)
(* no entity twice                                                         *)
C14_ReturnsOnlyWithinDepth ==
  Searched =>
    /\ ReturnedIds \subseteq Within({call.entity_id}, call.max_depth) \ {call.entity_id}
    /\ Cardinality(ReturnedIds) = Len(call.result)

(* the ids a walk from `ids` along edges of the types `path` can end at *)
RECURSIVE WalkEnds(_, _)
WalkEnds(ids, path) ==
  IF path = <<>> THEN ids
  ELSE WalkEnds({edges[i].to : i \in {j \in 1..Len(edges) :
                                       edges[j].from \in ids /\ edges[j].type = path[1]}}
                \cup {edges[i].from : i \in {j \in 1..Len(edges) :
                                       edges[j].to \in ids /\ edges[j].type = path[1]}},
                Tail(path))

(* C15: for every entity find_connected_entities returns, the reported     *)
(* distance is the entity's shortest hop distance from the start entity in *)
(* the undirected graph, and the reported path is a sequence of edge types *)
(* of exactly that length along a real path from the start entity.         *)
C15_DistanceIsShortest ==
  Searched =>
    \A i \in 1..Len(call.result) :
      LET c == call.result[i]
      IN /\ c.distance = HopDistance(call.entity_id, c.entity_id)
         /\ Len(c.path) = c.distance
         /\ c.entity_id \in WalkEnds({call.entity_id}, c.path)

(* the part of C15 that holds of the code: the path is real and as long as *)
(* the reported distance, which is at least the shortest                   *)
C15_PathIsReal ==
  Searched =>
    \A i \in 1..Len(call.result) :
      LET c == call.result[i]
      IN /\ c.distance >= HopDistance(call.entity_id, c.entity_id)
         /\ c.distance \in 1..call.max_depth
         /\ Len(c.path) = c.distance
         /\ c.entity_id \in WalkEnds({call.entity_id}, c.path)

----------------------------------------------------------------------------
(* Claims about the historical case matcher (CasesSpec) *)

CasesCalled == call.op = "get_similar_fraud_cases"

CatalogueIndexes == 1..Len(MAJOR_INDIAN_FRAUD_CASES)

(* the match count of catalogued case c for the indicators of the call *)
CatalogueScore(c) == MatchScore(MAJOR_INDIAN_FRAUD_CASES[c], call.fraud_indicators)

(* the match counts of all the catalogued cases for the indicators of the call *)
CatalogueScores == [c \in CatalogueIndexes |-> CatalogueScore(c)]

ReturnedNames == {call.result[i].name : i \in 1..Len(call.result)}

(* the catalogued cases that match and are not returned *)
LeftOut(score) == {c \in CatalogueIndexes :
                     /\ score[c] > 0
                     /\ MAJOR_INDIAN_FRAUD_CASES[c].name \notin ReturnedNames}

(* C16: get_similar_fraud_cases returns at most 5 cases, each a catalogued *)
(* case with its own match count, which is at least 1; the counts do not   *)
(* increase along the list; and a catalogued case with a nonzero count     *)
(* that is left out has a count no larger than any returned one.           *)
C16_TopFiveByMatchCount ==
  CasesCalled =>
    \A score \in {CatalogueScores} :
      LET r == call.result
      IN /\ Len(r) <= 5
         /\ \A i \in 1..Len(r) :
              /\ r[i].match_score >= 1
              /\ \E c \in CatalogueIndexes :
                   /\ MAJOR_INDIAN_FRAUD_CASES[c].name = r[i].name
                   /\ score[c] = r[i].match_score
         /\ \A i, j \in 1..Len(r) :
              /\ i < j => r[i].match_score >= r[j].match_score
              /\ i # j => r[i].name # r[j].name
         /\ \A c \in LeftOut(score) : \A i \in 1..Len(r) : r[i].match_score >= score[c]
         /\ LeftOut(score) # {} => Len(r) = 5

(* more than five cases match, with different counts: the cut leaves out   *)
(* a case that matches, the list runs from a larger to a smaller count,    *)
(* and a case later in the catalogue has a larger count than an earlier    *)
C16_Witness ==
  /\ CasesCalled
  /\ Len(call.result) = 5
  /\ call.result[1].match_score > call.result[5].match_score
  /\ \E score \in {CatalogueScores} :
       /\ LeftOut(score) # {}
       /\ \E c \in CatalogueIndexes : \E d \in CatalogueIndexes :
            /\ c < d
            /\ score[c] > 0
            /\ score[d] > score[c]

(* the words of a string, lower-cased *)
WordsOf(s) == {Split(Lower(s))[k] : k \in 1..Len(Split(Lower(s)))}

(* the count as the specification describes it: the number of the case's   *)
(* own key indicators that share a whole word with some supplied indicator *)
SharedWordKeywords(case, fraud_indicators) ==
  Cardinality({k \in 1..Len(case.key_indicators) :
                 \E i \in 1..Len(fraud_indicators) :
                   WordsOf(case.key_indicators[k]) \cap WordsOf(fraud_indicators[i]) # {}})

(* C17: the match count of a returned case is the number of its own key    *)
(* indicators that share a whole whitespace-delimited word, ignoring case, *)
(* with some supplied indicator; so it is at most the number of the case's *)
(* key indicators.                                                         *)
C17_MatchCountIsSharedWordKeywords ==
  CasesCalled =>
    \A i \in 1..Len(call.result) :
      /\ call.result[i].match_score
           = SharedWordKeywords(call.result[i], call.fraud_indicators)
      /\ call.result[i].match_score <= Len(call.result[i].key_indicators)

(* the bound alone: the count never exceeds the number of key indicators *)
C17_MatchCountAtMostKeywords ==
  CasesCalled =>
    \A i \in 1..Len(call.result) :
      call.result[i].match_score <= Len(call.result[i].key_indicators)

(* what the code computes: the count of a returned case is the number of   *)
(* supplied indicators that hold, as a substring, a word of one of the     *)
(* case's key indicators; so it is at most the number of supplied ones     *)
C17_MatchCountIsMatchingIndicators ==
  CasesCalled =>
    \A i \in 1..Len(call.result) :
      /\ call.result[i].match_score
           = Cardinality({n \in 1..Len(call.fraud_indicators) :
                \E k \in 1..Len(call.result[i].key_indicators) :
                  \E w \in WordsOf(call.result[i].key_indicators[k]) :
                    Contains(Lower(call.fraud_indicators[n]), w)})
      /\ call.result[i].match_score <= Len(call.fraud_indicators)

----------------------------------------------------------------------------
(* Claims about failing calls (IncompleteSpec) *)

ScoringCall == call.op \in {"run_all_fraud_checks", "analyze_business"}

Returned == "result" \in DOMAIN call

(* the detectors of lines 410-414 that raise on the profile *)
RaisingChecks ==
  {CheckOrder[i] : i \in {j \in 1..Len(CheckOrder) :
                            DetectorKeyError(CheckOrder[j], business_data, call.transaction_data) # NoKey}}

(* the call came to run the detectors, and one of them raised *)
DetectorRaised ==
  /\ ScoringCall
  /\ FirstMissing(<<"business_type", "num_outlets", "total_land_sqft">>, business_data) = NoKey
       \/ call.op = "run_all_fraud_checks"
  /\ RaisingChecks # {}

(* what a detector of the first five returns when called alone *)
Standalone(check_name) ==
  CASE check_name = "shell_company" -> detect_shell_company(business_data)
    [] check_name = "money_laundering" -> detect_money_laundering(business_data)
    [] check_name = "black_money" -> detect_black_money(business_data)
    [] check_name = "circular_trading" -> detect_circular_trading(business_data)
    [] check_name = "benami_property" -> detect_benami_property(business_data)

(* C18: if a detector raises during a scoring call, the call still returns *)
(* a result: the failing detector contributes score 0 and no indicators,   *)
(* the other detectors' results are what they return alone, and the        *)
(* failure is reported beside the result as a diagnostic.                  *)
C18_DetectorFailureIsContained ==
  DetectorRaised =>
    /\ Returned
    /\ "diagnostics" \in DOMAIN call
    /\ LET checks == IF Analyzed THEN call.result.all_fraud_checks ELSE call.result
       IN /\ RaisingChecks \subseteq {checks[i][1] : i \in 1..Len(checks)}
          /\ \A i \in 1..Len(checks) :
               IF checks[i][1] \in RaisingChecks
               THEN ResultScore(checks[i][2]) = 0 /\ checks[i][2].indicators = <<>>
               ELSE checks[i][1] \in {CheckOrder[j] : j \in 1..Len(CheckOrder)}
                      => checks[i][2] = Standalone(checks[i][1])

(* what the code does: the exception of the first raising detector leaves *)
(* the call, which returns nothing, whatever the other detectors found     *)
C18_DetectorFailureAbortsCall ==
  DetectorRaised =>
    /\ ~Returned
    /\ call.raised.exception = "KeyError"
    /\ call.raised.raised_in \in RaisingChecks
    /\ call.raised.key = DetectorKeyError(call.raised.raised_in, business_data,
                                          call.transaction_data)

MissingRequired == RequiredKeys \ DOMAIN business_data

----------------------------------------------------------------------------
(* Claims about repeated calls (RepeatSpec) *)

SameInputs(a, b) ==
  /\ a.lifestyle_data = b.lifestyle_data
  /\ a.transaction_data = b.transaction_data
  /\ a.network_data = b.network_data

----------------------------------------------------------------------------
(* Claims about the revenue sweep (SweepSpec) *)

(* the result of the named check in a history entry *)
CheckOf(entry, check_name) ==
  entry.checks[CHOOSE i \in 1..Len(entry.checks) : entry.checks[i][1] = check_name][2]

Sweeps == 1..Len(history)

(* four times the revenue thresholds of detect_money_laundering that apply *)
(* to the profile: 4x always, 2x for a cash-intensive category, 1.5x under *)
(* a close connection                                                      *)
LaunderingThresholds4 ==
  {8 * ExpectedRev2(business_data)}
    \cup (IF business_data.business_type \in CASH_INTENSIVE_TYPES
          THEN {4 * ExpectedRev2(business_data)} ELSE {})
    \cup (IF business_data.tycoon_connection_level \in HIGH_TYCOON_LEVELS
          THEN {3 * ExpectedRev2(business_data)} ELSE {})

(* of detect_circular_trading: 5x always, 3x for Import/Export Trading *)
CircularThresholds4 ==
  {10 * ExpectedRev2(business_data)}
    \cup (IF business_data.business_type = "Import/Export Trading"
          THEN {6 * ExpectedRev2(business_data)} ELSE {})

(* revenue a is at or below one of the thresholds and revenue b above it *)
Crosses(thresholds4, a, b) == \E t \in thresholds4 : 4 * a <= t /\ 4 * b > t

(* C21: with every other field fixed, the money-laundering score and the  *)
(* circular-trading score do not fall as declared revenue rises, and each  *)
(* is strictly higher above one of its applicable thresholds than at or    *)
(* below it.                                                               *)
C21_LaunderingAndCircularRiseWithRevenue ==
  \A i, j \in Sweeps :
    history[i].declared_revenue <= history[j].declared_revenue =>
      /\ CheckOf(history[i], "money_laundering").laundering_score
           <= CheckOf(history[j], "money_laundering").laundering_score
      /\ CheckOf(history[i], "circular_trading").circular_score
           <= CheckOf(history[j], "circular_trading").circular_score
      /\ Crosses(LaunderingThresholds4, history[i].declared_revenue,
                 history[j].declared_revenue)
           => CheckOf(history[i], "money_laundering").laundering_score
                < CheckOf(history[j], "money_laundering").laundering_score
      /\ Crosses(CircularThresholds4, history[i].declared_revenue,
                 history[j].declared_revenue)
           => CheckOf(history[i], "circular_trading").circular_score
                < CheckOf(history[j], "circular_trading").circular_score

(* a trading company with a close connection: the revenue goes from       *)
(* exactly 3x the expected one to just above 5x, crossing thresholds of    *)
(* both detectors, and both scores rise                                    *)
C21_Witness ==
  /\ Len(history) = 2
  /\ business_data.business_type = "Import/Export Trading"
  /\ business_data.tycoon_connection_level = "Close Business Partner"
  /\ 2 * history[1].declared_revenue = 3 * ExpectedRev2(business_data)
  /\ 2 * history[2].declared_revenue > 5 * ExpectedRev2(business_data)
  /\ CheckOf(history[1], "money_laundering").laundering_score = 30
  /\ CheckOf(history[2], "money_laundering").laundering_score = 60
  /\ CheckOf(history[1], "circular_trading").circular_score = 0
  /\ CheckOf(history[2], "circular_trading").circular_score = 65

(* the upper end of the revenue range of the range checks *)
RevenueRangeHigh ==
  calculate_expected_metrics(business_data.business_type, business_data.num_outlets,
                             business_data.total_land_sqft).revenue_range[2]

(* C22: with every other field fixed, once declared revenue is above the  *)
(* expected range, a higher revenue never turns the black-money detector   *)
(* from not matching to matching and never raises its score.               *)
C22_BlackMoneyStaysOffAboveRange ==
  \A i, j \in Sweeps :
    (/\ RevenueRangeHigh < history[i].declared_revenue
     /\ history[i].declared_revenue <= history[j].declared_revenue) =>
      /\ CheckOf(history[j], "black_money").black_money_score
           <= CheckOf(history[i], "black_money").black_money_score
      /\ CheckOf(history[j], "black_money").is_likely_black_money
           => CheckOf(history[i], "black_money").is_likely_black_money

IndicatorTexts(r) == {r.indicators[k].text : k \in 1..Len(r.indicators)}

(* what holds: the two conditions that compare against the revenue from   *)
(* above, under-reported revenue and assets beyond income, never turn on   *)
(* as revenue rises; the effective tax rate condition is the one that does *)
C22_RevenueFloorConditionsStayOff ==
  \A i, j \in Sweeps :
    history[i].declared_revenue <= history[j].declared_revenue =>
      \A text \in {"Significantly under-reported revenue - likely cash hoarding",
                   "Asset value far exceeds declared income capacity"} :
        text \in IndicatorTexts(CheckOf(history[j], "black_money"))
          => text \in IndicatorTexts(CheckOf(history[i], "black_money"))

----------------------------------------------------------------------------
(* Claims about zero-valued profiles (ZeroSpec) *)

(* a finite number: a fraction with a positive denominator *)
Finite(x) == x # DivisionByZero /\ DOMAIN x = {"n", "d"} /\ x.d > 0

NonNegativeProfile ==
  /\ business_data.num_outlets >= 1
  /\ \A k \in {"total_land_sqft", "land_rate_per_sqft", "electricity_consumption_kwh",
               "declared_revenue", "declared_tax_paid", "num_employees"} :
       business_data[k] >= 0

(* C24: on every profile with non-negative values and at least one outlet, *)
(* zero revenue, employees and area and (0, 0) benchmarks included, every  *)
(* feature and the effective tax rate are finite, every detector returns a *)
(* score within 0..100, and analyze_business returns with every anomaly    *)
(* score finite and within [0, 100].                                       *)
C24_NoDivisionByZero ==
  NonNegativeProfile =>
    /\ call.op = "_extract_features"
         => /\ Len(call.result) = 11
            /\ \A f \in 1..Len(call.result) : Finite(call.result[f])
            /\ Finite(call.tax_rate)
    /\ call.op \in DetectorOps
         => ResultScore(call.result) \in 0..100
    /\ Analyzed
         => /\ Returned
            /\ \A i \in 1..Len(call.result.anomaly_scores) :
                 LET v == call.result.anomaly_scores[i][2]
                 IN Finite(v) /\ v.n >= 0 /\ v.n <= 100 * v.d
            /\ Finite(call.locals.fraud_probability)

(* a hawker (benchmarks (0, 0)) with no area, revenue, tax or employees   *)
(* and 500 kWh: the electricity ratio is 500 over the floor 1, the revenue *)
(* per employee 0 over the floor 1                                         *)
C24_Witness ==
  /\ call.op = "_extract_features"
  /\ business_data.business_type = "Small Hawker/Peddler"
  /\ business_data.total_land_sqft = 0
  /\ business_data.declared_revenue = 0
  /\ business_data.declared_tax_paid = 0
  /\ business_data.num_employees = 0
  /\ business_data.electricity_consumption_kwh = 500
  /\ call.result[1] = Whole(500)
  /\ call.result[7] = Whole(0)
  /\ call.tax_rate = Whole(0)

----------------------------------------------------------------------------
(* Claims about the ensemble (Spec) *)

(* (1 - (if_score + 0.5)) * 100 clipped to [0, 100], if_score in hundredths *)
OutlierScore ==
  LET raw == 50 - call.ml.if_score
  IN IF raw < 0 THEN 0 ELSE IF raw > 100 THEN 100 ELSE raw

(* C23: the ensemble score is 0.30*outlier + 0.35*forest + 0.35*boosted   *)
(* when the boosted model is fitted and 0.40*outlier + 0.60*forest when it *)
(* is not, and then the reported boosted score is the forest score; the    *)
(* outlier score is clipped to [0,100] and the ensemble lies in [0,100].   *)
C23_EnsembleWeights ==
  (Analyzed /\ Returned) =>
    LET detail == call.result.ml_scores_detail
        outlier == detail.isolation_forest_score
        forest == detail.random_forest_score
        boosted == detail.xgboost_score
        ensemble == detail.ensemble_score
    IN /\ outlier = OutlierScore
       /\ outlier \in 0..100
       /\ forest = call.ml.rf_proba
       /\ boosted = (IF xgboost_model THEN call.ml.xgb_proba ELSE forest)
       /\ ensemble = (IF xgboost_model
                      THEN Frac(30 * outlier + 35 * forest + 35 * boosted, 100)
                      ELSE Frac(40 * outlier + 60 * forest, 100))
       /\ 0 <= ensemble.n /\ ensemble.n <= 100 * ensemble.d
       /\ call.locals.ml_ensemble = ensemble
       /\ call.result.ml_score \in Round1(ensemble)

(* no boosted model, an outlier value that the clip brings down to 100 and *)
(* a forest at 100: the ensemble is exactly 100 and the boosted score      *)
(* reported is the forest's                                                *)
C23_Witness ==
  /\ Analyzed
  /\ Returned
  /\ ~xgboost_model
  /\ 50 - call.ml.if_score > 100
  /\ call.result.ml_scores_detail.isolation_forest_score = 100
  /\ call.result.ml_scores_detail.xgboost_score = 100
  /\ call.result.ml_scores_detail.ensemble_score = Whole(100)

----------------------------------------------------------------------------
(* Claims about anomaly_scores (Spec) *)

(* the detector names under which anomaly_scores holds a value *)
RangeFreeAnomalyNames ==
  {call.result.anomaly_scores[i][1] : i \in 1..Len(call.result.anomaly_scores)}
    \ RangeAnomalyNames

(* C26: after analyze_business, for every detector that ran (five, or     *)
(* eight for a micro-vendor) anomaly_scores holds the detector's own score *)
(* under the detector's check name, matched or not.                        *)
C26_EveryDetectorScoreStored ==
  (Analyzed /\ Returned) =>
    \A i \in 1..Len(call.result.all_fraud_checks) :
      LET check_name == call.result.all_fraud_checks[i][1]
          check_result == call.result.all_fraud_checks[i][2]
      IN AnomalyOf(call.result.anomaly_scores, check_name)
           = {Whole(ResultScore(check_result))}

(* what the code does: of the detectors only black_money is stored, with  *)
(* its score, because it is the only one whose score key is its check name *)
(* followed by _score                                                      *)
C26_OnlyBlackMoneyStored ==
  (Analyzed /\ Returned) =>
    /\ RangeFreeAnomalyNames = {"black_money"}
    /\ \E i \in 1..Len(call.result.all_fraud_checks) :
         /\ call.result.all_fraud_checks[i][1] = "black_money"
         /\ AnomalyOf(call.result.anomaly_scores, "black_money")
              = {Whole(call.result.all_fraud_checks[i][2].black_money_score)}

----------------------------------------------------------------------------
(* Claims about matched patterns (Spec) *)

(* C28: every matched fraud pattern carries at least two indicators and a *)
(* score of at least 50, and so does every detector result whose flag is   *)
(* set: a result with a single indicator is never flagged.                 *)
C28_MatchNeedsTwoIndicators ==
  /\ (Analyzed /\ Returned) =>
       \A i \in 1..Len(call.result.matched_fraud_patterns) :
         /\ Len(call.result.matched_fraud_patterns[i].indicators) >= 2
         /\ call.result.matched_fraud_patterns[i].score >= 50
  /\ \A r \in DetectorResults :
       /\ ResultFlag(r) => Len(r.indicators) >= 2 /\ ResultScore(r) >= 50
       /\ Len(r.indicators) <= 1 => ~ResultFlag(r) /\ ResultScore(r) < 50

(* one call in which a pattern matches on exactly two indicators with the *)
(* score 50, and another detector holds the heaviest single condition, 35  *)
(* points, unmatched                                                       *)
C28_Witness ==
  /\ Analyzed
  /\ Returned
  /\ \E i \in 1..Len(call.result.matched_fraud_patterns) :
       /\ Len(call.result.matched_fraud_patterns[i].indicators) = 2
       /\ call.result.matched_fraud_patterns[i].score = 50
  /\ \E r \in DetectorResults :
       /\ Len(r.indicators) = 1
       /\ ResultScore(r) = 35
       /\ ~ResultFlag(r)

----------------------------------------------------------------------------
(* Claims about the analyzer's state (NetworkSpec) *)

(* the operations that only read the graph *)
NetworkQueries ==
  {"analyze_network", "find_connected_entities", "get_network_visualization_data"}

(* C25: nodes and edges change only through add_entity and add_connection: *)
(* a step that answers analyze_network, find_connected_entities or         *)
(* get_network_visualization_data leaves both unchanged, a step that       *)
(* changes edges appends exactly one edge and leaves nodes alone, and a    *)
(* step that changes nodes rewrites one entity and leaves edges alone.     *)
C25_GraphChangesOnlyByAdding ==
  [][/\ call' # call =>
          /\ call'.op \in NetworkQueries
          /\ nodes' = nodes
          /\ edges' = edges
     /\ edges' # edges =>
          /\ Len(edges') = Len(edges) + 1
          /\ SubSeq(edges', 1, Len(edges)) = edges
          /\ nodes' = nodes
          /\ call' = call
     /\ nodes' # nodes =>
          /\ edges' = edges
          /\ call' = call
          /\ \E entity_id \in DOMAIN nodes' :
               /\ DOMAIN nodes' = DOMAIN nodes \cup {entity_id}
               /\ \A k \in DOMAIN nodes \ {entity_id} : nodes'[k] = nodes[k]]_vars

(* a graph of three entities and three different connections has been      *)
(* built and its visualization data read, the long name cut to 20          *)
(* characters                                                              *)
C25_Witness ==
  /\ call.op = "get_network_visualization_data"
  /\ Cardinality(DOMAIN nodes) = 3
  /\ Len(edges) = 3
  /\ edges[1] # edges[2]
  /\ edges[2] # edges[3]
  /\ Len(call.result.edges) = 3
  /\ \E n \in call.result.nodes : n.label = "Ramesh Kumar Agarwal"
  /\ \E i \in 1..3 : call.result.edges[i].width = Whole(4)

(* the call of find_connected_entities has returned *)
SearchDone == call.op = "find_connected_entities" /\ call.pc = "done"

(* the result holds no start entity, no entity twice, and distances from 1 *)
(* to max_depth                                                            *)
SearchResultOK ==
  /\ \A k \in 1..Len(call.result) :
       /\ call.result[k].entity_id # call.entity_id
       /\ call.result[k].distance >= 1
       /\ call.result[k].distance <= call.max_depth
  /\ \A k, l \in 1..Len(call.result) :
       call.result[k].entity_id = call.result[l].entity_id => k = l

(* C29: on every graph, with cycles, self-loops, parallel edges and edges  *)
(* naming unregistered entities, and for every max_depth, the call of      *)
(* find_connected_entities returns, and what it returns never contains the *)
(* start entity, contains no entity twice, and has every distance between  *)
(* 1 and max_depth.                                                        *)
C29_SearchTerminatesWithCleanResult == <>[](SearchDone /\ SearchResultOK)

(* the stack never holds more frames than max_depth + 2, and each frame's  *)
(* loop position stays within the edge list                                *)
C29_StackBounded ==
  (call.op = "find_connected_entities" /\ call.pc = "running") =>
    /\ Len(call.stack) <= Max(call.max_depth, 0) + 2
    /\ \A k \in 1..Len(call.stack) : call.stack[k].i <= Len(edges) + 1

(* the stepwise call returns what the recursive definition gives *)
C29_StepwiseAgreesWithRecursive ==
  SearchDone =>
    /\ Len(call.result) = Len(find_connected_entities(edges, call.entity_id, call.max_depth))
    /\ \A k \in 1..Len(call.result) :
         [entity_id |-> call.result[k].entity_id,
          distance |-> call.result[k].distance,
          path |-> call.result[k].path]
         = find_connected_entities(edges, call.entity_id, call.max_depth)[k]

(* a search from "vendor" over a graph with the cycle closed, or with a    *)
(* self-loop and a parallel edge, has returned two entities, one of them   *)
(* unregistered or at distance 2                                           *)
C29_Witness ==
  /\ SearchDone
  /\ call.entity_id = "vendor"
  /\ call.max_depth = 2
  /\ Len(edges) = 3
  /\ \/ \E k \in 1..3 : edges[k].from = "vendor" /\ edges[k].to = "vendor"
     \/ edges[1] = edges[2]
     \/ \A e \in SearchConnections \ {<<"vendor", "vendor", "business">>,
                                        <<"person", "supplier", "business">>} :
          \E k \in 1..3 : edges[k].from = e[1] /\ edges[k].to = e[2]
  /\ Len(call.result) = 2
  /\ \E k \in 1..2 : call.result[k].distance = 2

(* network_risk_score as analyze_network reports it for a graph *)
NetworkRiskScore(self_nodes, self_edges) ==
  analyze_network(self_nodes, self_edges).network_risk_score

(* C30: with the registered entities unchanged, the network_risk_score of  *)
(* analyze_network never decreases when a connection is added, and it is   *)
(* always within 0..100; a step that lowers it re-registers an entity.     *)
C30_RiskScoreRisesWithConnections ==
  [][\A before \in {NetworkRiskScore(nodes, edges)},
        after \in {NetworkRiskScore(nodes', edges')} :
       /\ after \in 0..100
       /\ nodes' = nodes => after >= before
       /\ after < before => nodes' # nodes /\ edges' = edges]_vars

(* four connections have been added of which the third left the score as   *)
(* it was and the fourth raised it to the cap of 100 from below, and       *)
(* re-registering one entity would lower it                                *)
C30_Witness ==
  /\ Len(edges) = 4
  /\ NetworkRiskScore(nodes, SubSeq(edges, 1, 2)) > 0
  /\ NetworkRiskScore(nodes, SubSeq(edges, 1, 3)) = NetworkRiskScore(nodes, SubSeq(edges, 1, 2))
  /\ NetworkRiskScore(nodes, SubSeq(edges, 1, 3)) < NetworkRiskScore(nodes, edges)
  /\ \E e \in EntityInputs :
       NetworkRiskScore(add_entity(nodes, e[1], e[2]), edges) < NetworkRiskScore(nodes, edges)

(* the cap is reached: the uncapped sum of a reachable graph exceeds 100 *)
C30_CapReached ==
  /\ Len(edges) = 4
  /\ NetworkRiskScore(nodes, edges) = 100
  /\ NetworkRiskScore(nodes, SubSeq(edges, 1, 3)) < 100
  /\ 15 * Len(HighRiskClusters(nodes, edges))
     + SumSeq([i \in 1..Len(SuspiciousFindings(nodes, edges)) |->
                 SuspiciousFindings(nodes, edges)[i].pts]) > 100

----------------------------------------------------------------------------
(* Claims about build_vendor_network (BuildSpec) *)

Built == call.op = "build_vendor_network"

(* the ids the caller supplied with the related entities, by position *)
SuppliedAt == {i \in 1..Len(call.related_entities) : "id" \in DOMAIN call.related_entities[i]}

(* the supplied ids are pairwise distinct and differ from the primary id *)
SuppliedIdsDistinct ==
  /\ \A i, j \in SuppliedAt :
       call.related_entities[i].id = call.related_entities[j].id => i = j
  /\ \A i \in SuppliedAt : call.related_entities[i].id # PrimaryId(call.primary_vendor)

(* 1 + len(related_entities) nodes that are no counterparties, the primary *)
(* of type small_vendor, and exactly one edge from the primary to each     *)
(* related entity                                                          *)
OwnNodeForEveryEntity ==
  /\ Cardinality({k \in DOMAIN nodes : nodes[k].type # "counterparty"})
       = 1 + Len(call.related_entities)
  /\ nodes[PrimaryId(call.primary_vendor)].type = "small_vendor"
  /\ \A i \in 1..Len(call.related_entities) :
       Cardinality({j \in 1..Len(edges) :
                      /\ edges[j].from = PrimaryId(call.primary_vendor)
                      /\ edges[j].to = call.entity_ids[i]}) = 1

(* C27: when the ids supplied with the related entities are pairwise       *)
(* distinct and differ from the primary id, the graph built has exactly    *)
(* 1 + len(related_entities) non-counterparty nodes, the primary node has  *)
(* type small_vendor, and there is exactly one edge from the primary to    *)
(* each related entity.                                                    *)
C27_EveryRelatedEntityHasItsNode ==
  (Built /\ SuppliedIdsDistinct) => OwnNodeForEveryEntity

(* an id of the form line 226 generates *)
LooksGenerated(id) == \E n \in 0..(Len(call.related_entities) + 1) : id = "entity_" \o Str(n)

(* the same holds when moreover no supplied id, the primary's included,    *)
(* has the form of a generated id                                          *)
C27_HoldsWhenNoIdLooksGenerated ==
  (/\ Built
   /\ SuppliedIdsDistinct
   /\ ~LooksGenerated(PrimaryId(call.primary_vendor))
   /\ \A i \in SuppliedAt : ~LooksGenerated(call.related_entities[i].id))
  => OwnNodeForEveryEntity

(* two related entities, one of them without an id, each got its own node; *)
(* a counterparty was added as well                                        *)
C27_OwnNodesReached ==
  /\ Built
  /\ SuppliedIdsDistinct
  /\ Len(call.related_entities) = 2
  /\ Cardinality(SuppliedAt) = 1
  /\ OwnNodeForEveryEntity
  /\ \E k \in DOMAIN nodes : nodes[k].type = "counterparty"

====
